---- MODULE Spec2Model ----
(***************************************************************************)
(* Model of the Gmail -> SQLite -> YNAB pipeline of ynab-bank-exporter:    *)
(* the ingestion loop of `sync`, the transactions table with its status    *)
(* columns, YNABClient.createTransactions / createTransaction, and the     *)
(* batch -> individual fallback and write-back loops of `sync` and         *)
(* `retryYNABSync`.                                                        *)
(***************************************************************************)
EXTENDS Naturals, Integers, Sequences, FiniteSets, TLC

(***************************************************************************)
(* Bounds of the model.                                                    *)
(***************************************************************************)
\* number of messages the mailbox holds
MaxMsg == 2
\* number of sync / retry runs that are started
MaxRuns == 2
\* number of rows of the stores from which the reconciliation is started
MaxRows == 3
\* number of rows of the stores from which the submission of amounts is started
MaxPriced == 2
\* largest maxRetries option retryWithBackoff is called with
MaxRetries == 3
\* largest number of rules in rules.merchant_normalization
MaxRules == 2

\* a nullable column holds the empty set (NULL) or the singleton of its value
Null == {}
Some(v) == {v}
Stamp == Some("CURRENT_TIMESTAMP")

Msgs == 1..MaxMsg
\* transaction dates, as yyyyMMdd: 2026-01-01 and 2026-01-02
Dates == {20260101, 20260102}

\* values of --min-date: 0 stands for no option; the earliest date as the
\* minimum filters nothing, as no option does
MinDates == {0} \cup {d \in Dates : \E e \in Dates : e < d}

\* bank accounts (last 4 digits) that the parsers produce
BankAccounts == {"1610", "0014", "9999"}

\* accounts.json: bank account -> YNAB account id; "9999" has no mapping
accountMappings == [a \in {"1610", "0014"} |-> IF a = "1610" THEN "ynab-A" ELSE "ynab-B"]

\* YNABClient.getYNABAccountId: this.accountMappings[bankAccount] || null
NoAccountId == "null"

\* a lookup that falls back to a default account instead of null
getYNABAccountId_Default(bankAccount) ==
  IF bankAccount \in DOMAIN accountMappings THEN accountMappings[bankAccount] ELSE "ynab-A"

\* YNABClient.getYNABAccountId: this.accountMappings[bankAccount] || null
getYNABAccountId(bankAccount) ==
  IF bankAccount \in DOMAIN accountMappings THEN accountMappings[bankAccount] ELSE NoAccountId

(***************************************************************************)
(* Transactions produced by the parsers.  The id is the fingerprint of the *)
(* parsed fields; here the fields that tell two transactions apart are the *)
(* account and the date.                                                   *)
(***************************************************************************)
Fingerprint(account, date) == <<account, date>>

FPs == {Fingerprint(a, d) : a \in BankAccounts, d \in Dates}

\* what findParser + Parser.parse yield for a message: a transaction, null
\* from the parser, or no parser at all
\* An amount is held in ten-thousandths of a currency unit (3000000 stands
\* for 300.00).  The documents of the runs all carry the same amount and
\* direction; the submission on its own (below) varies them.
ParsedTx ==
  {[kind |-> "tx", id |-> Fingerprint(a, d), account |-> a, date |-> d,
    amount |-> 3000000, direction |-> "outflow"] :
     a \in BankAccounts, d \in Dates}
NotParsed(kind) ==
  [kind |-> kind, id |-> <<"", 0>>, account |-> "", date |-> 0, amount |-> 0, direction |-> ""]
Unseen == NotParsed("unseen")
Contents == ParsedTx \cup {NotParsed("no-parser"), NotParsed("parse-null")}

(***************************************************************************)
(* Error classification (utils/errors.ts).  A thrown value is null or      *)
(* undefined (obj FALSE) or an object; an object carries the status of its *)
(* response (0: no response, or a response without status), its transport  *)
(* code and the keywords its text (the API detail, else error.message)     *)
(* contains.  An AppError (app TRUE) carries type, message, retryable,     *)
(* context and httpStatus (0: undefined); a context is undefined (Null) or *)
(* an object, held as the set of its keys.                                 *)
(***************************************************************************)
ErrorType ==
  {"NETWORK_ERROR", "RATE_LIMIT", "TIMEOUT", "SERVER_ERROR", "AUTHENTICATION_ERROR",
   "VALIDATION_ERROR", "NOT_FOUND", "CONFIGURATION_ERROR", "PARSING_ERROR", "UNKNOWN_ERROR"}

RawError(status, code, kw) ==
  [obj |-> TRUE, app |-> FALSE, type |-> "", message |-> <<"", kw>>, retryable |-> FALSE,
   context |-> Null, httpStatus |-> 0, status |-> status, code |-> code, kw |-> kw]

\* `throw null`, `throw undefined`, a promise rejected without a reason
Nullish ==
  [obj |-> FALSE, app |-> FALSE, type |-> "", message |-> <<"", {}>>, retryable |-> FALSE,
   context |-> Null, httpStatus |-> 0, status |-> 0, code |-> "", kw |-> {}]

\* what reading a property of null or undefined throws
TypeError ==
  [obj |-> TRUE, app |-> FALSE, type |-> "", message |-> <<"", {"Cannot read properties"}>>,
   retryable |-> FALSE, context |-> Null, httpStatus |-> 0, status |-> 0, code |-> "",
   kw |-> {"Cannot read properties"}]

\* new AppError({type, message: prefix + text, retryable, context, httpStatus,
\* originalError: e})
AppError(type, prefix, retryable, context, httpStatus, e) ==
  [obj |-> TRUE, app |-> TRUE, type |-> type, message |-> <<prefix, e.kw>>,
   retryable |-> retryable, context |-> context, httpStatus |-> httpStatus,
   status |-> e.status, code |-> e.code, kw |-> e.kw]

\* {...context, key: value}
Spread(context, key) == Some((IF context = Null THEN {} ELSE CHOOSE c \in context : TRUE) \cup {key})

\* the branches with the message keywords tested before the transport code
classifyObject_KeywordFirst(error, context) ==
  IF error.status # 0 /\ error.status = 429
    THEN AppError("RATE_LIMIT", "Rate limit exceeded: ", TRUE, Spread(context, "retryAfter"), error.status, error)
  ELSE IF error.status # 0 /\ error.status \in {401, 403}
    THEN AppError("AUTHENTICATION_ERROR", "Authentication failed: ", FALSE, context, error.status, error)
  ELSE IF error.status # 0 /\ error.status = 404
    THEN AppError("NOT_FOUND", "Resource not found: ", FALSE, context, error.status, error)
  ELSE IF error.status # 0 /\ error.status \in {400, 422}
    THEN AppError("VALIDATION_ERROR", "Validation error: ", FALSE, Spread(context, "validationErrors"), error.status, error)
  ELSE IF error.status # 0 /\ error.status >= 500
    THEN AppError("SERVER_ERROR", "Server error (status): ", TRUE, context, error.status, error)
  ELSE IF error.kw \cap {"timeout", "TIMEOUT"} # {}
    THEN AppError("TIMEOUT", "Request timeout: ", TRUE, context, 0, error)
  ELSE IF error.kw \cap {"not found", "required"} # {}
    THEN AppError("CONFIGURATION_ERROR", "", FALSE, context, 0, error)
  ELSE IF error.code \in {"ECONNRESET", "ETIMEDOUT", "ENOTFOUND"}
    THEN AppError("NETWORK_ERROR", "Network error: ", TRUE, context, 0, error)
  ELSE AppError("UNKNOWN_ERROR", "", FALSE, context, 0, error)

\* the branches of classifyError for an object that is no AppError
classifyObject(error, context) ==
  IF error.status # 0 /\ error.status = 429
    THEN AppError("RATE_LIMIT", "Rate limit exceeded: ", TRUE, Spread(context, "retryAfter"), error.status, error)
  ELSE IF error.status # 0 /\ error.status \in {401, 403}
    THEN AppError("AUTHENTICATION_ERROR", "Authentication failed: ", FALSE, context, error.status, error)
  ELSE IF error.status # 0 /\ error.status = 404
    THEN AppError("NOT_FOUND", "Resource not found: ", FALSE, context, error.status, error)
  ELSE IF error.status # 0 /\ error.status \in {400, 422}
    THEN AppError("VALIDATION_ERROR", "Validation error: ", FALSE, Spread(context, "validationErrors"), error.status, error)
  ELSE IF error.status # 0 /\ error.status >= 500
    THEN AppError("SERVER_ERROR", "Server error (status): ", TRUE, context, error.status, error)
  ELSE IF error.code \in {"ECONNRESET", "ETIMEDOUT", "ENOTFOUND"}
    THEN AppError("NETWORK_ERROR", "Network error: ", TRUE, context, 0, error)
  ELSE IF error.kw \cap {"timeout", "TIMEOUT"} # {}
    THEN AppError("TIMEOUT", "Request timeout: ", TRUE, context, 0, error)
  ELSE IF error.kw \cap {"not found", "required"} # {}
    THEN AppError("CONFIGURATION_ERROR", "", FALSE, context, 0, error)
  ELSE AppError("UNKNOWN_ERROR", "", FALSE, context, 0, error)

classifyError_Reclassify(error, context) ==
  IF ~error.obj THEN TypeError
  ELSE IF error.app /\ context = Null THEN error
  ELSE classifyObject(error, context)

\* classifyError(error, context): the AppError returned, or the TypeError
\* that reading error.response throws when error is null or undefined
classifyError(error, context) ==
  IF ~error.obj THEN TypeError
  ELSE IF error.app THEN error
  ELSE classifyObject(error, context)

\* formatError of an AppError: "[type] message | Context: ... | HTTP status",
\* the last two parts only when truthy
formatError(error) == <<error.type, error.message, error.context, error.httpStatus>>

\* the contexts the callers pass (ynab/client.ts 79-84 and 149-152,
\* cli/index.ts 295-297 and 311-314)
TxContext == Some({"transactionId", "payee", "amount", "account"})
BatchContext == Some({"accountId", "transactionCount"})
SyncContext == Some({"transactionCount"})
ItemContext == Some({"transactionId", "payee"})

\* the failures the ledger API produces in the model
ApiErrors == {RawError(500, "", {}), RawError(422, "", {})}

(***************************************************************************)
(* State.                                                                  *)
(***************************************************************************)
VARIABLES
  store,       \* transactions table: id -> row
  processed,   \* processed_messages table: set of message ids
  unparsed,    \* unparsed_messages table: message id -> attempts
  mail,        \* mailbox: message id -> content, fixed at the first fetch
  pc,          \* position of the running command
  run,         \* the command that runs and its options
  queue,       \* messages still to ingest (the `messages` loop)
  newCount,    \* newCount of sync
  errorCount,  \* errorCount of the ingestion loop of sync
  caught,      \* classifyError alone: the value caught and the context passed
  classified,  \* classifyError alone: what the call yielded
  options,     \* retryWithBackoff alone: its options, defaults filled in
  attempt,     \* retryWithBackoff alone: the loop variable
  lastError,   \* retryWithBackoff alone: lastError
  trace,       \* retryWithBackoff alone: calls of fn, onRetry and sleep, in order
  outcome,     \* retryWithBackoff alone: running, returned or thrown
  doc,         \* the parsers alone: the message fetched
  parser,      \* the parsers alone: what findParser returned
  parsed,      \* the parsers alone: what parser.parse yielded
  rules,       \* RulesEngine alone: rules.merchant_normalization
  transaction, \* RulesEngine alone: the argument of apply
  normalized,  \* RulesEngine alone: what apply returned
  sel,         \* `unsynced` / `failed`: the selected rows, in order
  groups,      \* byAccount entries createTransactions still has to submit
  results,     \* syncResults (inside createTransactions: results)
  syncErrors,  \* syncErrors
  idx,         \* loop index of the individual fallback loop
  calls,       \* requests sent to the ledger API in this run, in order
  runs         \* number of runs started

\* the variables of the functions that are checked alone
backoffVars == <<options, attempt, lastError, trace, outcome>>
parseVars == <<doc, parser, parsed>>
rulesVars == <<rules, transaction, normalized>>
callVars == <<backoffVars, parseVars, rulesVars>>

vars == <<store, processed, unparsed, mail, pc, run, queue, newCount, errorCount, caught,
          classified, sel,
          groups, results, syncErrors, idx, calls, runs, callVars>>

\* config: whether loadYNABConfig() has returned ("loaded") or thrown ("failed")
NoRun == [kind |-> "none", minDate |-> 0, config |-> "none"]
Empty == [x \in {} |-> {}]
\* no call of classifyError has been made
NoCall == <<>>

\* retryWithBackoff is not running
BackoffIdle ==
  /\ options = NoCall
  /\ attempt = 0
  /\ lastError = NoCall
  /\ trace = <<>>
  /\ outcome = NoCall

\* findParser has not been called
NotCalled == "not called"

\* no message is being parsed
ParseIdle ==
  /\ doc = NoCall
  /\ parser = NotCalled
  /\ parsed = NoCall

\* rulesEngine.apply has not been called
RulesIdle ==
  /\ rules = <<>>
  /\ transaction = NoCall
  /\ normalized = NoCall

\* none of the functions checked alone is running
CallsIdle == BackoffIdle /\ ParseIdle /\ RulesIdle

Init ==
  /\ store = Empty
  /\ processed = {}
  /\ unparsed = Empty
  /\ mail = [m \in Msgs |-> Unseen]
  /\ pc = "idle"
  /\ run = NoRun
  /\ queue = <<>>
  /\ newCount = 0
  /\ errorCount = 0
  /\ caught = NoCall
  /\ classified = NoCall
  /\ sel = <<>>
  /\ groups = <<>>
  /\ results = Empty
  /\ syncErrors = Empty
  /\ idx = 0
  /\ calls = <<>>
  /\ runs = 0
  /\ CallsIdle

(***************************************************************************)
(* The transactions table (db/index.ts) and the prepared statements of     *)
(* cli/commands.ts.                                                        *)
(***************************************************************************)
\* a row as INSERT creates it: the status columns take their defaults
NewRow(t, m, n) ==
  [account |-> t.account, date |-> t.date, amount |-> t.amount, direction |-> t.direction,
   rawMessageId |-> m, created_at |-> n,
   ynab_transaction_id |-> Null, ynab_synced_at |-> Null, ynab_sync_error |-> Null,
   ynab_sync_error_type |-> Null, ynab_sync_retry_count |-> 0, ynab_sync_last_retry |-> Null]

\* created_at DATETIME DEFAULT CURRENT_TIMESTAMP: the clock has a resolution
\* of one second, so a row is stamped with the second of the row inserted
\* last or with a later one
Latest(s) == IF DOMAIN s = {} THEN 0
             ELSE CHOOSE n \in {s[i].created_at : i \in DOMAIN s} :
                    \A i \in DOMAIN s : s[i].created_at <= n
\* The stamps a new row dated `date` can get.  created_at is read by ORDER BY
\* date, created_at alone, so sharing the second of the latest row can be
\* told from a later second only if that row has the same date.
Timestamps(s, date) ==
  {Latest(s) + 1} \cup
  {n \in {Latest(s)} : \E i \in DOMAIN s : s[i].created_at = n /\ s[i].date = date}

\* INSERT OR REPLACE in place of INSERT OR IGNORE
insertTx_Replace(s, t, m, n) ==
  [i \in DOMAIN s \cup {t.id} |-> IF i = t.id THEN NewRow(t, m, n) ELSE s[i]]

\* insertTx: INSERT OR IGNORE INTO transactions ...
insertTx(s, t, m, n) ==
  IF t.id \in DOMAIN s THEN s
  ELSE [i \in DOMAIN s \cup {t.id} |-> IF i = t.id THEN NewRow(t, m, n) ELSE s[i]]

\* info.changes of insertTx.run
insertChanges(s, t) == IF t.id \in DOMAIN s THEN 0 ELSE 1

\* an UPDATE that leaves the previous error text in place
updateYNABSync_KeepError(s, id, ynabId) ==
  [s EXCEPT ![id] = [@ EXCEPT !.ynab_transaction_id = Some(ynabId),
                              !.ynab_synced_at = Stamp,
                              !.ynab_sync_retry_count = 0]]

\* updateYNABSync / updateYNABSyncRetry
updateYNABSync(s, id, ynabId) ==
  [s EXCEPT ![id] = [@ EXCEPT !.ynab_transaction_id = Some(ynabId),
                              !.ynab_synced_at = Stamp,
                              !.ynab_sync_error = Null,
                              !.ynab_sync_error_type = Null,
                              !.ynab_sync_retry_count = 0]]

\* initDB: the columns CREATE TABLE IF NOT EXISTS transactions gives the table
\* of a store that did not exist.  The rows of this model carry the columns
\* the statements of the commands read and write.
initDBColumns ==
  {"id", "bank", "account", "date", "payee", "memo", "amount", "currency", "direction",
   "raw_message_id", "raw_thread_id", "created_at",
   "ynab_transaction_id", "ynab_synced_at", "ynab_sync_error"}

\* the columns in the SET clause of updateYNABSync / updateYNABSyncRetry
updateYNABSyncColumns ==
  {"ynab_transaction_id", "ynab_synced_at", "ynab_sync_error", "ynab_sync_error_type",
   "ynab_sync_retry_count"}

\* the columns in the SET clause of updateYNABError / updateYNABErrorRetry
updateYNABErrorColumns ==
  {"ynab_sync_error", "ynab_sync_error_type", "ynab_sync_retry_count",
   "ynab_sync_last_retry", "ynab_synced_at"}

\* the error written with INSERT OR REPLACE: the row is created anew
updateYNABError_Replace(s, id, error, errorType) ==
  [s EXCEPT ![id] = [@ EXCEPT !.ynab_sync_error = Some(error),
                              !.ynab_sync_error_type = Some(errorType),
                              !.ynab_sync_retry_count = @ + 1,
                              !.ynab_sync_last_retry = Stamp,
                              !.ynab_synced_at = Stamp,
                              !.created_at = Latest(s) + 1]]

\* an error written with the retry count set to one
updateYNABError_CountOne(s, id, error, errorType) ==
  [s EXCEPT ![id] = [@ EXCEPT !.ynab_sync_error = Some(error),
                              !.ynab_sync_error_type = Some(errorType),
                              !.ynab_sync_retry_count = 1,
                              !.ynab_sync_last_retry = Stamp,
                              !.ynab_synced_at = Stamp]]

\* updateYNABError / updateYNABErrorRetry
updateYNABError(s, id, error, errorType) ==
  [s EXCEPT ![id] = [@ EXCEPT !.ynab_sync_error = Some(error),
                              !.ynab_sync_error_type = Some(errorType),
                              !.ynab_sync_retry_count = @ + 1,
                              !.ynab_sync_last_retry = Stamp,
                              !.ynab_synced_at = Stamp]]

\* ORDER BY created_at ASC alone
Before_CreatedOnly(s, i, j) == s[i].created_at < s[j].created_at

\* ORDER BY date ASC, created_at ASC: row i sorts strictly before row j
Before(s, i, j) ==
  \/ s[i].date < s[j].date
  \/ s[i].date = s[j].date /\ s[i].created_at < s[j].created_at

\* the results a SELECT ... ORDER BY over the rows S can return: every
\* arrangement of S in which no row comes after one it sorts before; rows
\* with equal sort keys come in any order
OrderRows(s, S) ==
  {q \in [1..Cardinality(S) -> S] :
     /\ \A k, l \in DOMAIN q : k # l => q[k] # q[l]
     /\ \A k, l \in DOMAIN q : k < l => ~Before(s, q[l], q[k])}

\* a WHERE clause that also matches rows already synced
getFailedSyncs_All(s) == OrderRows(s, DOMAIN s)

\* a WHERE clause that tests the error column only
getUnsyncedTransactions_ErrorOnly(s) ==
  OrderRows(s, {i \in DOMAIN s : s[i].ynab_sync_error = Null})

\* getUnsyncedTransactions: WHERE ynab_synced_at IS NULL AND ynab_sync_error IS NULL
getUnsyncedTransactions(s) ==
  OrderRows(s, {i \in DOMAIN s : s[i].ynab_synced_at = Null /\ s[i].ynab_sync_error = Null})

\* getFailedSyncs: WHERE ynab_synced_at IS NULL OR ynab_sync_error IS NOT NULL
getFailedSyncs(s) ==
  OrderRows(s, {i \in DOMAIN s : s[i].ynab_synced_at = Null \/ s[i].ynab_sync_error # Null})

\* a filter that lets every row through
FilterMinDate_KeepAll(s, rows, minDate) == rows

\* the unsynced.filter of sync: drop rows dated before --min-date
FilterMinDate(s, rows, minDate) ==
  SelectSeq(rows, LAMBDA i : minDate = 0 \/ ~(s[i].date < minDate))

(***************************************************************************)
(* Ingestion: the `for (const msgSummary of messages)` loop of sync.       *)
(***************************************************************************)
RunUnchanged == UNCHANGED <<sel, groups, results, syncErrors, idx, calls>>

\* the content getMessage + parser give for message m: the same at every
\* fetch.  It is remembered only while m can be fetched again, that is until
\* m is marked processed.
Fetch(m, c) ==
  /\ c \in Contents
  /\ mail[m] \in {Unseen, c}
  /\ mail' = [mail EXCEPT ![m] = IF c \in ParsedTx THEN Unseen ELSE c]

\* sync(): listMessages, then the loop starts
StartSync ==
  /\ pc = "idle"
  /\ runs < MaxRuns
  /\ queue' = [n \in 1..MaxMsg |-> n]
  /\ \E md \in MinDates : run' = [kind |-> "sync", minDate |-> md, config |-> "none"]
  /\ runs' = runs + 1
  /\ pc' = "ingest"
  /\ newCount' = 0 /\ errorCount' = 0 /\ UNCHANGED <<caught, classified, callVars>>
  /\ sel' = <<>> /\ groups' = <<>> /\ results' = Empty /\ syncErrors' = Empty
  /\ idx' = 0 /\ calls' = <<>>
  /\ UNCHANGED <<store, processed, unparsed, mail>>

\* checkProcessed.get(id) -> continue; getMessage() null -> continue
IngestSkip ==
  /\ pc = "ingest" /\ queue # <<>>
  /\ queue' = Tail(queue)
  /\ UNCHANGED <<store, processed, unparsed, mail, pc, run, newCount, errorCount, runs, caught, classified, callVars>>
  /\ RunUnchanged

\* the attempts INSERT OR REPLACE ... COALESCE((SELECT attempts ...), 1) + 1
\* would store
insertUnparsed_FromOne(u, m) ==
  [d \in DOMAIN u \cup {m} |->
     IF d = m THEN (IF m \in DOMAIN u THEN u[m] ELSE 1) + 1 ELSE u[d]]

\* insertUnparsed: INSERT OR REPLACE INTO unparsed_messages ... attempts =
\* COALESCE((SELECT attempts ... WHERE message_id = @id), 0) + 1
insertUnparsed(u, m) ==
  [d \in DOMAIN u \cup {m} |->
     IF d = m THEN (IF m \in DOMAIN u THEN u[m] ELSE 0) + 1 ELSE u[d]]

\* a loop body that also marks a message it could not parse as processed
IngestUnparsed_Marked ==
  /\ pc = "ingest" /\ queue # <<>>
  /\ LET m == Head(queue) IN
       /\ m \notin processed
       /\ \E c \in Contents \ ParsedTx :
            /\ Fetch(m, c)
            /\ errorCount' = IF c.kind = "parse-null" THEN errorCount + 1 ELSE errorCount
       /\ unparsed' = insertUnparsed(unparsed, m)
       /\ processed' = processed \cup {m}
  /\ queue' = Tail(queue)
  /\ UNCHANGED <<store, pc, run, newCount, runs, caught, classified, callVars>>
  /\ RunUnchanged

\* the parser returned null (insertUnparsed, errorCount++), or no parser
\* matched (insertUnparsed); the message is not marked processed
IngestUnparsed ==
  /\ pc = "ingest" /\ queue # <<>>
  /\ LET m == Head(queue) IN
       /\ m \notin processed
       /\ \E c \in Contents \ ParsedTx :
            /\ Fetch(m, c)
            /\ errorCount' = IF c.kind = "parse-null" THEN errorCount + 1 ELSE errorCount
       /\ unparsed' = insertUnparsed(unparsed, m)
  /\ queue' = Tail(queue)
  /\ UNCHANGED <<store, processed, pc, run, newCount, runs, caught, classified, callVars>>
  /\ RunUnchanged

\* a transaction dated before --min-date: insertProcessed only
IngestFiltered ==
  /\ pc = "ingest" /\ queue # <<>>
  /\ LET m == Head(queue) IN
       /\ m \notin processed
       /\ \E t \in ParsedTx :
            /\ Fetch(m, t)
            /\ run.minDate # 0 /\ t.date < run.minDate
       /\ processed' = processed \cup {m}
  /\ queue' = Tail(queue)
  /\ UNCHANGED <<store, unparsed, pc, run, newCount, errorCount, runs, caught, classified, callVars>>
  /\ RunUnchanged

\* insertTx.run(normalized); newCount++ if it changed a row; insertProcessed
IngestInsert ==
  /\ pc = "ingest" /\ queue # <<>>
  /\ LET m == Head(queue) IN
       /\ m \notin processed
       /\ \E t \in ParsedTx :
            /\ Fetch(m, t)
            /\ ~(run.minDate # 0 /\ t.date < run.minDate)
            /\ \E n \in Timestamps(store, t.date) : store' = insertTx(store, t, m, n)
            /\ newCount' = newCount + insertChanges(store, t)
       /\ processed' = processed \cup {m}
  /\ queue' = Tail(queue)
  /\ UNCHANGED <<unparsed, pc, run, errorCount, runs, caught, classified, callVars>>
  /\ RunUnchanged

\* a sync that enters the YNAB phase whatever newCount is
EndIngest_NoGuard ==
  /\ pc = "ingest" /\ queue = <<>>
  /\ pc' = "recon"
  /\ UNCHANGED <<store, processed, unparsed, mail, run, queue, newCount, errorCount, runs, caught, classified, callVars>>
  /\ RunUnchanged

\* end of the loop: `if (newCount > 0)` guards the YNAB phase
EndIngest ==
  /\ pc = "ingest" /\ queue = <<>>
  /\ pc' = IF newCount > 0 THEN "recon" ELSE "done"
  /\ UNCHANGED <<store, processed, unparsed, mail, run, queue, newCount, errorCount, runs, caught, classified, callVars>>
  /\ RunUnchanged

(***************************************************************************)
(* YNABClient (ynab/client.ts) and the reconciliation phase of sync and    *)
(* retryYNABSync (cli/commands.ts).                                        *)
(***************************************************************************)
Range(f) == {f[x] : x \in DOMAIN f}

\* the id the ledger assigns to the transaction it creates for row i
LedgerId(i) == <<"ynab-tx", i>>

\* the keys of byAccount, in the order the reduce inserts them
RECURSIVE AccountOrder(_, _, _)
AccountOrder(s, rows, acc) ==
  IF rows = <<>> THEN acc
  ELSE LET accountId == getYNABAccountId(s[Head(rows)].account)
       IN AccountOrder(s, Tail(rows),
                       IF accountId = NoAccountId \/ accountId \in Range(acc)
                       THEN acc ELSE Append(acc, accountId))

\* account groups submitted in the reverse of the order of their first rows
byAccount_LastFirst(s, rows) ==
  LET order == AccountOrder(s, rows, <<>>)
  IN [k \in 1..Len(order) |->
        [accountId |-> order[Len(order) + 1 - k],
         txs |-> SelectSeq(rows, LAMBDA i : getYNABAccountId(s[i].account) = order[Len(order) + 1 - k])]]

\* createTransactions: Object.entries(byAccount); rows without a mapping are left out
byAccount(s, rows) ==
  LET order == AccountOrder(s, rows, <<>>)
  IN [k \in 1..Len(order) |->
        [accountId |-> order[k],
         txs |-> SelectSeq(rows, LAMBDA i : getYNABAccountId(s[i].account) = order[k])]]

\* rounding toward zero in place of Math.round
toMilliunits_Truncate(amount) == amount \div 10

\* toMilliunits: Math.round(amount * 1000), which rounds a half up
toMilliunits(amount) == (amount + 5) \div 10

\* createTransaction: the amount of ynabTransaction
milliunitAmount(t) ==
  LET amount == toMilliunits(t.amount)
  IN IF t.direction = "outflow" THEN -amount ELSE amount

\* createTransactions: the amounts of ynabTransactions
ynabTransactions(accountTransactions) ==
  [k \in DOMAIN accountTransactions |->
     LET t == accountTransactions[k]
     IN IF t.direction = "outflow" THEN -toMilliunits(t.amount) ELSE toMilliunits(t.amount)]

\* the amounts in the body of a request for the rows ids
Body(mode, ids) ==
  IF mode = "single" THEN [k \in DOMAIN ids |-> milliunitAmount(store[ids[k]])]
  ELSE ynabTransactions([k \in DOMAIN ids |-> store[ids[k]]])

\* a request sent to the ledger API and what came back: the rows for which
\* the response carried an id, or the classified error
OkCall(mode, accountId, ids, created) ==
  [mode |-> mode, accountId |-> accountId, ids |-> ids, amounts |-> Body(mode, ids),
   ok |-> TRUE, created |-> created, type |-> "", retryable |-> FALSE]
FailedCall(mode, accountId, ids, appError) ==
  [mode |-> mode, accountId |-> accountId, ids |-> ids, amounts |-> Body(mode, ids),
   ok |-> FALSE, created |-> {}, type |-> appError.type, retryable |-> appError.retryable]

\* f with every entry of g set in it
Put(f, g) == [i \in DOMAIN f \cup DOMAIN g |-> IF i \in DOMAIN g THEN g[i] ELSE f[i]]

\* retryYNABSync(): a run of the retry-ynab command starts
StartRetry ==
  /\ pc = "idle"
  /\ runs < MaxRuns
  /\ runs' = runs + 1
  /\ run' = [kind |-> "retry", minDate |-> 0, config |-> "none"]
  /\ pc' = "recon"
  /\ queue' = <<>> /\ newCount' = 0 /\ errorCount' = 0 /\ UNCHANGED <<caught, classified, callVars>>
  /\ sel' = <<>> /\ groups' = <<>> /\ results' = Empty /\ syncErrors' = Empty
  /\ idx' = 0 /\ calls' = <<>>
  /\ UNCHANGED <<store, processed, unparsed, mail>>

\* a catch that records the configuration error on every pending row
LoadConfigFail_MarkRows ==
  /\ pc = "recon"
  /\ pc' = "done"
  /\ run' = [run EXCEPT !.config = "failed"]
  /\ store' = [i \in DOMAIN store |->
                 IF store[i].ynab_synced_at = Null
                 THEN [store[i] EXCEPT !.ynab_sync_error = Some("configuration"),
                                       !.ynab_sync_error_type = Some("CONFIGURATION_ERROR"),
                                       !.ynab_synced_at = Stamp]
                 ELSE store[i]]
  /\ UNCHANGED <<processed, unparsed, mail, queue, newCount, errorCount, runs, caught, classified, callVars>>
  /\ RunUnchanged

\* loadYNABConfig() throws: the outer catch logs it and the command ends
LoadConfigFail ==
  /\ pc = "recon"
  /\ pc' = "done"
  /\ run' = [run EXCEPT !.config = "failed"]
  /\ UNCHANGED <<store, processed, unparsed, mail, queue, newCount, errorCount, runs, caught, classified, callVars>>
  /\ RunUnchanged

\* the selections a run can get: sync filters the pending rows by --min-date
SelectedRows ==
  IF run.kind = "sync"
  THEN {FilterMinDate(store, rows, run.minDate) : rows \in getUnsyncedTransactions(store)}
  ELSE getFailedSyncs(store)

\* loadYNABConfig() returns; getUnsyncedTransactions.all() / getFailedSyncs.all(),
\* then the call of createTransactions, which groups the rows by YNAB account
SelectRows ==
  /\ pc = "recon"
  /\ run' = [run EXCEPT !.config = "loaded"]
  /\ \E rows \in SelectedRows :
       LET entries == byAccount(store, rows)
       IN IF rows = <<>>
          THEN /\ pc' = "done"
               /\ UNCHANGED <<sel, groups, idx>>
          ELSE /\ sel' = rows
               /\ groups' = entries
               /\ idx' = 0
               /\ pc' = IF entries = <<>> THEN "writeback" ELSE "batch"
  /\ UNCHANGED <<store, processed, unparsed, mail, queue, newCount, errorCount, runs, caught, classified, callVars,
                 results, syncErrors, calls>>

\* The rows for which the response to a successful request carries a
\* transaction with an id: the ledger answers with every transaction it
\* saved, in the order of the request.
Created(ids) == Range(ids)

\* createTransactions: the batch request of one account succeeds; the id of
\* the k-th transaction of the response is put into results for the k-th row
BatchOk ==
  /\ pc = "batch" /\ groups # <<>>
  /\ LET g == Head(groups)
         S == Created(g.txs)
     IN /\ calls' = Append(calls, OkCall("batch", g.accountId, g.txs, S))
        /\ results' = Put(results, [k \in S |-> LedgerId(k)])
  /\ groups' = Tail(groups)
  /\ pc' = IF Tail(groups) = <<>> THEN "writeback" ELSE "batch"
  /\ UNCHANGED <<store, processed, unparsed, mail, run, queue, newCount, errorCount, runs, caught, classified, callVars,
                 sel, syncErrors, idx>>

\* a caller that starts the individual fallback on every retryable failure
BatchFail_AnyLength ==
  /\ pc = "batch" /\ groups # <<>>
  /\ groups' = <<>>
  /\ results' = Empty
  /\ \E e \in ApiErrors :
       LET appError == classifyError(classifyError(e, BatchContext), SyncContext) IN
         /\ calls' = Append(calls, FailedCall("batch", Head(groups).accountId,
                                              Head(groups).txs, appError))
         /\ IF appError.retryable
            THEN /\ pc' = "fallback" /\ idx' = 1
                 /\ syncErrors' = Empty
            ELSE /\ pc' = "writeback" /\ idx' = 0
                 /\ syncErrors' = Put(Empty, [i \in Range(sel) |-> appError])
  /\ UNCHANGED <<store, processed, unparsed, mail, run, queue, newCount, errorCount, runs, caught, classified, callVars, sel>>

\* createTransactions: the batch request of one account fails; the classified
\* error is thrown out of the loop over the accounts, and the caller either
\* starts the individual fallback or marks every selected row with the error
BatchFail ==
  /\ pc = "batch" /\ groups # <<>>
  /\ groups' = <<>>
  /\ results' = Empty
  /\ \E e \in ApiErrors :
       LET appError == classifyError(classifyError(e, BatchContext), SyncContext) IN
         /\ calls' = Append(calls, FailedCall("batch", Head(groups).accountId,
                                              Head(groups).txs, appError))
         /\ IF appError.retryable /\ Len(sel) > 1
            THEN /\ pc' = "fallback" /\ idx' = 1
                 /\ syncErrors' = Empty
            ELSE /\ pc' = "writeback" /\ idx' = 0
                 /\ syncErrors' = Put(Empty, [i \in Range(sel) |-> appError])
  /\ UNCHANGED <<store, processed, unparsed, mail, run, queue, newCount, errorCount, runs, caught, classified, callVars, sel>>

\* the index of the fallback loop moves on; after the last row the
\* write-back loop starts
NextRow ==
  IF idx < Len(sel)
  THEN /\ idx' = idx + 1 /\ pc' = pc
  ELSE /\ idx' = 0 /\ pc' = "writeback"

\* createTransaction of a row without a mapping: returns null, no request
FallbackNoMapping ==
  /\ pc = "fallback"
  /\ getYNABAccountId(store[sel[idx]].account) = NoAccountId
  /\ NextRow
  /\ UNCHANGED <<store, processed, unparsed, mail, run, queue, newCount, errorCount, runs, caught, classified, callVars,
                 sel, groups, results, syncErrors, calls>>

\* createTransaction: the request succeeds and the id of the transaction in
\* the response is returned
FallbackOk ==
  /\ pc = "fallback"
  /\ LET i == sel[idx]
         accountId == getYNABAccountId(store[i].account)
         S == Created(<<i>>)
     IN /\ accountId # NoAccountId
        /\ calls' = Append(calls, OkCall("single", accountId, <<i>>, S))
        /\ results' = Put(results, [k \in S |-> LedgerId(k)])
  /\ NextRow
  /\ UNCHANGED <<store, processed, unparsed, mail, run, queue, newCount, errorCount, runs, caught, classified, callVars,
                 sel, groups, syncErrors>>

\* a fallback loop that stops at the first row that fails
FallbackFail_Abort ==
  /\ pc = "fallback"
  /\ LET i == sel[idx]
         accountId == getYNABAccountId(store[i].account)
     IN /\ accountId # NoAccountId
        /\ \E e \in ApiErrors :
             LET txAppError == classifyError(classifyError(e, TxContext), ItemContext) IN
               /\ calls' = Append(calls, FailedCall("single", accountId, <<i>>, txAppError))
               /\ syncErrors' = Put(syncErrors, [j \in {i} |-> txAppError])
  /\ idx' = 0 /\ pc' = "writeback"
  /\ UNCHANGED <<store, processed, unparsed, mail, run, queue, newCount, errorCount, runs, caught, classified, callVars,
                 sel, groups, results>>

\* createTransaction: the request fails; the classified error is thrown and
\* the caller's catch puts it into syncErrors
FallbackFail ==
  /\ pc = "fallback"
  /\ LET i == sel[idx]
         accountId == getYNABAccountId(store[i].account)
     IN /\ accountId # NoAccountId
        /\ \E e \in ApiErrors :
             LET txAppError == classifyError(classifyError(e, TxContext), ItemContext) IN
               /\ calls' = Append(calls, FailedCall("single", accountId, <<i>>, txAppError))
               /\ syncErrors' = Put(syncErrors, [j \in {i} |-> txAppError])
  /\ NextRow
  /\ UNCHANGED <<store, processed, unparsed, mail, run, queue, newCount, errorCount, runs, caught, classified, callVars,
                 sel, groups, results>>

\* the text of the error synthesized for a row without a mapping
MappingErrorMessage(account) == <<"No YNAB account mapping for bank account", account, 0>>

\* a write-back loop without the branch that records syncErrors
WriteBackRow_SkipErrors(s, i) ==
  IF i \in DOMAIN results THEN updateYNABSync(s, i, results[i])
  ELSE IF getYNABAccountId(s[i].account) = NoAccountId
       THEN updateYNABError(s, i, MappingErrorMessage(s[i].account), "CONFIGURATION_ERROR")
  ELSE s

\* one iteration of the write-back loop `for (const transaction of unsynced)`
WriteBackRow(s, i) ==
  IF i \in DOMAIN results THEN updateYNABSync(s, i, results[i])
  ELSE IF i \in DOMAIN syncErrors
       THEN updateYNABError(s, i, formatError(syncErrors[i]), syncErrors[i].type)
  ELSE IF getYNABAccountId(s[i].account) = NoAccountId
       THEN updateYNABError(s, i, MappingErrorMessage(s[i].account), "CONFIGURATION_ERROR")
  ELSE s

\* the write-back loop over the first n selected rows
RECURSIVE WriteBackRows(_, _)
WriteBackRows(s, n) ==
  IF n = 0 THEN s ELSE WriteBackRow(WriteBackRows(s, n - 1), sel[n])

\* the counters of the write-back loop before its first iteration
NoSummary == [syncedCount |-> 0, errorCount |-> 0, errorBreakdown |-> [type \in ErrorType |-> 0]]

\* what one iteration of the write-back loop adds to syncedCount, errorCount
\* (stillFailed in retryYNABSync) and errorBreakdown
CountRow(summary, s, i) ==
  IF i \in DOMAIN results THEN [summary EXCEPT !.syncedCount = @ + 1]
  ELSE IF i \in DOMAIN syncErrors
       THEN [summary EXCEPT !.errorBreakdown[syncErrors[i].type] = @ + 1, !.errorCount = @ + 1]
  ELSE IF getYNABAccountId(s[i].account) = NoAccountId
       THEN [summary EXCEPT !.errorBreakdown["CONFIGURATION_ERROR"] = @ + 1, !.errorCount = @ + 1]
  ELSE summary

\* the counters after the first n iterations: what the summary prints
RECURSIVE Summary(_, _)
Summary(s, n) ==
  IF n = 0 THEN NoSummary ELSE CountRow(Summary(s, n - 1), s, sel[n])

\* the write-back loop and the summary that follows it
WriteBack ==
  /\ pc = "writeback"
  /\ store' = WriteBackRows(store, Len(sel))
  /\ pc' = "done"
  /\ UNCHANGED <<processed, unparsed, mail, run, queue, newCount, errorCount, runs, caught, classified, callVars,
                 sel, groups, results, syncErrors, idx, calls>>

\* the command returns
Return ==
  /\ pc = "done"
  /\ pc' = "idle"
  /\ run' = NoRun
  /\ queue' = <<>> /\ newCount' = 0 /\ errorCount' = 0 /\ UNCHANGED <<caught, classified, callVars>>
  /\ sel' = <<>> /\ groups' = <<>> /\ results' = Empty /\ syncErrors' = Empty
  /\ idx' = 0 /\ calls' = <<>>
  /\ UNCHANGED <<store, processed, unparsed, mail, runs>>

Next ==
  \/ StartSync
  \/ IngestSkip
  \/ IngestUnparsed
  \/ IngestFiltered
  \/ IngestInsert
  \/ EndIngest
  \/ StartRetry
  \/ LoadConfigFail
  \/ SelectRows
  \/ BatchOk
  \/ BatchFail
  \/ FallbackNoMapping
  \/ FallbackOk
  \/ FallbackFail
  \/ WriteBack
  \/ Return

Spec == Init /\ [][Next]_vars

(***************************************************************************)
(* Cancellation: the process is killed while a command runs.  Every        *)
(* statement is committed on its own (no transaction spans statements), so *)
(* the tables keep what was written before the kill; the variables of the  *)
(* command are lost.                                                       *)
(***************************************************************************)
Killed ==
  /\ pc' = "idle"
  /\ run' = NoRun
  /\ queue' = <<>> /\ newCount' = 0 /\ errorCount' = 0 /\ UNCHANGED <<caught, classified, callVars>>
  /\ sel' = <<>> /\ groups' = <<>> /\ results' = Empty /\ syncErrors' = Empty
  /\ idx' = 0 /\ calls' = <<>>
  /\ UNCHANGED runs

\* killed between two statements of the ingestion loop, before the
\* selection, or between two requests to the ledger
Abort ==
  /\ pc \in {"ingest", "recon", "batch", "fallback"}
  /\ Killed
  /\ UNCHANGED <<store, processed, unparsed, mail>>

\* a loop body that marks the message processed before it inserts the row
AbortInsert_MarkerFirst ==
  /\ pc = "ingest" /\ queue # <<>>
  /\ LET m == Head(queue) IN
       /\ m \notin processed
       /\ \E t \in ParsedTx :
            /\ mail[m] \in {Unseen, t}
            /\ ~(run.minDate # 0 /\ t.date < run.minDate)
            /\ mail' = [mail EXCEPT ![m] = t]
       /\ processed' = processed \cup {m}
  /\ Killed
  /\ UNCHANGED <<store, unparsed>>

\* killed between insertTx.run and insertProcessed.run: the row is stored and
\* the message is not marked, so the next run fetches the message again
AbortInsert ==
  /\ pc = "ingest" /\ queue # <<>>
  /\ LET m == Head(queue) IN
       /\ m \notin processed
       /\ \E t \in ParsedTx :
            /\ mail[m] \in {Unseen, t}
            /\ ~(run.minDate # 0 /\ t.date < run.minDate)
            /\ mail' = [mail EXCEPT ![m] = t]
            /\ \E n \in Timestamps(store, t.date) : store' = insertTx(store, t, m, n)
  /\ Killed
  /\ UNCHANGED <<processed, unparsed>>

\* killed inside the write-back loop, after the updates of the first n rows
AbortWriteBack ==
  /\ pc = "writeback"
  /\ \E n \in 0..(Len(sel) - 1) : store' = WriteBackRows(store, n)
  /\ Killed
  /\ UNCHANGED <<processed, unparsed, mail>>

\* sync runs that can be killed
NextAbort ==
  \/ StartSync
  \/ IngestSkip
  \/ IngestUnparsed
  \/ IngestFiltered
  \/ IngestInsert
  \/ EndIngest
  \/ LoadConfigFail
  \/ SelectRows
  \/ BatchOk
  \/ BatchFail
  \/ FallbackNoMapping
  \/ FallbackOk
  \/ FallbackFail
  \/ WriteBack
  \/ Return
  \/ Abort
  \/ AbortInsert
  \/ AbortWriteBack

SpecAbort == Init /\ [][NextAbort]_vars

(***************************************************************************)
(* The reconciliation on its own: the last of the MaxRuns runs is a        *)
(* retry-ynab over a store that the ingestion of up to MaxRows documents   *)
(* by the runs before it has filled.                                       *)
(***************************************************************************)
\* the stores the ingestion of n documents with distinct transactions leaves
RECURSIVE InsertedStores(_)
InsertedStores(n) ==
  IF n = 0 THEN {Empty}
  ELSE {insertTx(s, t, n, stamp) :
          <<s, t, stamp>> \in {<<s, t, stamp>> \in InsertedStores(n - 1) \X ParsedTx \X (1..n) :
                                 t.id \notin DOMAIN s /\ stamp \in Timestamps(s, t.date)}}

InitRecon ==
  /\ \E n \in 1..MaxRows :
       /\ store \in InsertedStores(n)
       /\ processed = 1..n
  /\ unparsed = Empty
  /\ mail = [m \in Msgs |-> Unseen]
  /\ pc = "idle"
  /\ run = NoRun
  /\ queue = <<>>
  /\ newCount = 0
  /\ errorCount = 0
  /\ caught = NoCall
  /\ classified = NoCall
  /\ sel = <<>>
  /\ groups = <<>>
  /\ results = Empty
  /\ syncErrors = Empty
  /\ idx = 0
  /\ calls = <<>>
  /\ runs = MaxRuns - 1
  /\ CallsIdle

NextRecon ==
  \/ StartRetry
  \/ LoadConfigFail
  \/ SelectRows
  \/ BatchOk
  \/ BatchFail
  \/ FallbackNoMapping
  \/ FallbackOk
  \/ FallbackFail
  \/ WriteBack
  \/ Return

SpecRecon == InitRecon /\ [][NextRecon]_vars

(***************************************************************************)
(* The submission of amounts on its own: a retry-ynab run over a store     *)
(* whose rows carry any of the amounts and directions below.               *)
(***************************************************************************)
\* 1.2344 and 1.2345 currency units: 1234 and 1235 milliunits
Amounts == {12344, 12345}
Directions == {"inflow", "outflow"}

\* the store s with the amounts and directions f
Priced(s, f) == [i \in DOMAIN s |-> [s[i] EXCEPT !.amount = f[i][1], !.direction = f[i][2]]]

InitSubmit ==
  /\ \E n \in 1..MaxPriced :
       /\ store \in {Priced(s, f) : <<s, f>> \in
                       {<<s, f>> \in InsertedStores(n) \X [FPs -> Amounts \X Directions] :
                          \A i \in FPs \ DOMAIN s : f[i] = <<12344, "inflow">>}}
       /\ processed = 1..n
  /\ unparsed = Empty
  /\ mail = [m \in Msgs |-> Unseen]
  /\ pc = "idle"
  /\ run = NoRun
  /\ queue = <<>>
  /\ newCount = 0
  /\ errorCount = 0
  /\ caught = NoCall
  /\ classified = NoCall
  /\ sel = <<>>
  /\ groups = <<>>
  /\ results = Empty
  /\ syncErrors = Empty
  /\ idx = 0
  /\ calls = <<>>
  /\ runs = MaxRuns - 1
  /\ CallsIdle

SpecSubmit == InitSubmit /\ [][NextRecon]_vars

(***************************************************************************)
(* classifyError alone (utils/errors.ts 66-184): a value is caught, it is  *)
(* classified with the context of the catch block, and the error this      *)
(* yields may be caught and classified again by a caller, with the         *)
(* caller's context (ynab/client.ts 149 then cli/index.ts 295).            *)
(***************************************************************************)
Statuses == {0, 400, 401, 403, 404, 409, 422, 429, 500, 503, 599}
Codes == {"", "ECONNRESET", "ETIMEDOUT", "ENOTFOUND", "ECONNREFUSED"}
Texts == {{}, {"timeout"}, {"TIMEOUT"}, {"not found"}, {"required"}, {"timeout", "required"}}
Contexts == {Null, SyncContext, ItemContext}

RawErrors == {RawError(s, c, k) : s \in Statuses, c \in Codes, k \in Texts}
AppErrors == {classifyError(e, c) : e \in RawErrors, c \in Contexts}
Thrown == RawErrors \cup AppErrors \cup {Nullish}

InitClassify ==
  /\ store = Empty
  /\ processed = {}
  /\ unparsed = Empty
  /\ mail = [m \in Msgs |-> Unseen]
  /\ pc = "idle"
  /\ run = NoRun
  /\ queue = <<>>
  /\ newCount = 0
  /\ errorCount = 0
  /\ caught \in [error : Thrown, context : Contexts]
  /\ classified = NoCall
  /\ sel = <<>>
  /\ groups = <<>>
  /\ results = Empty
  /\ syncErrors = Empty
  /\ idx = 0
  /\ calls = <<>>
  /\ runs = 0
  /\ CallsIdle

\* const appError = classifyError(error, context)
Classify ==
  /\ classified = NoCall
  /\ classified' = classifyError(caught.error, caught.context)
  /\ UNCHANGED <<store, processed, unparsed, mail, pc, run, queue, newCount, errorCount,
                 caught, sel, groups, results, syncErrors, idx, calls, runs, callVars>>

\* the AppError is thrown on, caught by a caller and classified again
Reclassify ==
  /\ classified # NoCall
  /\ classified.app
  /\ caught.error # classified
  /\ \E context \in Contexts :
       /\ caught' = [error |-> classified, context |-> context]
       /\ classified' = classifyError(classified, context)
  /\ UNCHANGED <<store, processed, unparsed, mail, pc, run, queue, newCount, errorCount,
                 sel, groups, results, syncErrors, idx, calls, runs, callVars>>

NextClassify ==
  \/ Classify
  \/ Reclassify

SpecClassify == InitClassify /\ [][NextClassify]_vars

(***************************************************************************)
(* retryWithBackoff alone (utils/errors.ts 196-248).  fn is any operation: *)
(* each invocation returns a value (here the number of the invocation) or  *)
(* throws.  The trace holds the calls the helper makes, in order.          *)
(***************************************************************************)
\* the program and classifyError at rest
ProgramIdle ==
  /\ store = Empty
  /\ processed = {}
  /\ unparsed = Empty
  /\ mail = [m \in Msgs |-> Unseen]
  /\ pc = "idle"
  /\ run = NoRun
  /\ queue = <<>>
  /\ newCount = 0
  /\ errorCount = 0
  /\ caught = NoCall
  /\ classified = NoCall
  /\ sel = <<>>
  /\ groups = <<>>
  /\ results = Empty
  /\ syncErrors = Empty
  /\ idx = 0
  /\ calls = <<>>
  /\ runs = 0

ProgramUnchanged ==
  UNCHANGED <<store, processed, unparsed, mail, pc, run, queue, newCount, errorCount, caught,
              classified, sel, groups, results, syncErrors, idx, calls, runs>>

RECURSIVE Pow(_, _)
Pow(b, e) == IF e = 0 THEN 1 ELSE b * Pow(b, e - 1)
Min(a, b) == IF a <= b THEN a ELSE b

\* maxRetries = 3, initialDelay = 1000, maxDelay = 30000, backoffMultiplier = 2
DefaultOptions ==
  [maxRetries |-> 3, initialDelay |-> 1000, maxDelay |-> 30000, backoffMultiplier |-> 2,
   onRetry |-> FALSE]

\* the options of the calls: the defaults, those of ynab/client.ts 62-70 and
\* 125-133 (the defaults with onRetry), and others
Options ==
  {DefaultOptions} \cup
  [maxRetries : 0..MaxRetries, initialDelay : {1000, 16000}, maxDelay : {30000},
   backoffMultiplier : {2, 3}, onRetry : BOOLEAN]

\* what an invocation of fn throws: errors classified retryable and
\* non-retryable, and a rejection without a reason
FnErrors ==
  {RawError(503, "", {}), RawError(0, "ECONNRESET", {}), RawError(422, "", {}), Nullish}

NoValue == 0
FnCall(ok, value, error) == [ev |-> "fn", ok |-> ok, value |-> value, error |-> error]
OnRetryCall(appError, n) == [ev |-> "onRetry", ok |-> TRUE, value |-> n, error |-> appError]
SleepCall(delay) == [ev |-> "sleep", ok |-> TRUE, value |-> delay, error |-> Nullish]

Running == [state |-> "running", value |-> NoValue, error |-> Nullish]
Returned(value) == [state |-> "returned", value |-> value, error |-> Nullish]
Threw(error) == [state |-> "thrown", value |-> NoValue, error |-> error]

\* number of invocations of fn made so far
Invocations(t) == Cardinality({k \in DOMAIN t : t[k].ev = "fn"})

InitBackoff ==
  /\ ProgramIdle
  /\ ParseIdle
  /\ RulesIdle
  /\ options \in Options
  /\ attempt = 0
  /\ lastError = NoCall
  /\ trace = <<>>
  /\ outcome = Running

\* a delay that is not capped by maxDelay
Delay_Uncapped(o, k) == o.initialDelay * Pow(o.backoffMultiplier, k)

\* Math.min(initialDelay * Math.pow(backoffMultiplier, attempt), maxDelay)
Delay(o, k) == Min(o.initialDelay * Pow(o.backoffMultiplier, k), o.maxDelay)

\* the for loop is entered: attempt <= maxRetries
InLoop == outcome = Running /\ attempt <= options.maxRetries

\* return await fn()
InvokeReturn ==
  /\ InLoop
  /\ LET value == Invocations(trace) + 1 IN
       /\ trace' = Append(trace, FnCall(TRUE, value, Nullish))
       /\ outcome' = Returned(value)
  /\ UNCHANGED <<options, attempt, lastError, parseVars, rulesVars>>
  /\ ProgramUnchanged

\* the catch block with the test of the last attempt one attempt late
Caught_OneMore(error) ==
  LET appError == classifyError(error, Null)
      failed == Append(trace, FnCall(FALSE, NoValue, error)) IN
    IF ~appError.app
      THEN /\ trace' = failed
           /\ outcome' = Threw(appError)
           /\ UNCHANGED <<attempt, lastError>>
    ELSE IF ~appError.retryable \/ attempt = options.maxRetries + 1
      THEN /\ trace' = failed
           /\ lastError' = appError
           /\ outcome' = Threw(appError)
           /\ UNCHANGED attempt
    ELSE /\ trace' = failed \o
                     (IF options.onRetry THEN <<OnRetryCall(appError, attempt + 1)>> ELSE <<>>) \o
                     <<SleepCall(Delay(options, attempt))>>
         /\ lastError' = appError
         /\ attempt' = attempt + 1
         /\ UNCHANGED outcome

\* the catch block retrying whatever the classification is
Caught_RetryAll(error) ==
  LET appError == classifyError(error, Null)
      failed == Append(trace, FnCall(FALSE, NoValue, error)) IN
    IF ~appError.app
      THEN /\ trace' = failed
           /\ outcome' = Threw(appError)
           /\ UNCHANGED <<attempt, lastError>>
    ELSE IF attempt = options.maxRetries
      THEN /\ trace' = failed
           /\ lastError' = appError
           /\ outcome' = Threw(appError)
           /\ UNCHANGED attempt
    ELSE /\ trace' = failed \o
                     (IF options.onRetry THEN <<OnRetryCall(appError, attempt + 1)>> ELSE <<>>) \o
                     <<SleepCall(Delay(options, attempt))>>
         /\ lastError' = appError
         /\ attempt' = attempt + 1
         /\ UNCHANGED outcome

\* catch (error): classifyError(error) throws out of the catch block when
\* error is null or undefined; else the error is thrown when it is not
\* retryable or the attempt is the last one; else onRetry is called, the
\* delay is slept and the loop goes on (attempt++)
Caught(error) ==
  LET appError == classifyError(error, Null)
      failed == Append(trace, FnCall(FALSE, NoValue, error)) IN
    IF ~appError.app
      THEN /\ trace' = failed
           /\ outcome' = Threw(appError)
           /\ UNCHANGED <<attempt, lastError>>
    ELSE IF ~appError.retryable \/ attempt = options.maxRetries
      THEN /\ trace' = failed
           /\ lastError' = appError
           /\ outcome' = Threw(appError)
           /\ UNCHANGED attempt
    ELSE /\ trace' = failed \o
                     (IF options.onRetry THEN <<OnRetryCall(appError, attempt + 1)>> ELSE <<>>) \o
                     <<SleepCall(Delay(options, attempt))>>
         /\ lastError' = appError
         /\ attempt' = attempt + 1
         /\ UNCHANGED outcome

\* await fn() throws
InvokeThrow ==
  /\ InLoop
  /\ \E error \in FnErrors : Caught(error)
  /\ UNCHANGED <<options, parseVars, rulesVars>>
  /\ ProgramUnchanged

NextBackoff ==
  \/ InvokeReturn
  \/ InvokeThrow

SpecBackoff == InitBackoff /\ [][NextBackoff]_vars

\* every invocation of fn and every sleep comes to an end
SpecBackoffLive == SpecBackoff /\ WF_vars(NextBackoff)

(***************************************************************************)
(* The parsers alone (parsers/index.ts, bhd.ts, qik.ts, caribe.ts).  A     *)
(* message is held by what the parsers read of it: the sender addresses    *)
(* its From header contains, the phrases its subject contains, whether it  *)
(* has an HTML body, whether its Date header gave a valid Date, and what   *)
(* the regular expressions of the parsers find in the body.                *)
(***************************************************************************)
Senders == {"Alertas@bhd.com.do", "notificaciones@qik.do", "NOTIFICACIONES@bancocaribe.com.do"}
Froms ==
  {{}, {"Alertas@bhd.com.do"}, {"notificaciones@qik.do"}, {"NOTIFICACIONES@bancocaribe.com.do"},
   {"Alertas@bhd.com.do", "notificaciones@qik.do"},
   {"notificaciones@qik.do", "NOTIFICACIONES@bancocaribe.com.do"}}
Subjects ==
  {{}, {"BHD Notificacion de Transacciones"}, {"Transacciones entre mis productos"},
   {"Transferencias a terceros"}, {"Pago de Servicios"}, {"Usaste tu tarjeta de credito Qik"},
   {"Notificacion Caribe"}, {"Tarjeta de Credito Caribe"},
   {"Transferencias a terceros", "Usaste tu tarjeta de credito Qik"},
   {"Usaste tu tarjeta de credito Qik", "transaccion"}}

\* the last four digits a regular expression captures; None: no match
None == "none"
Instruments == {None, "1610", "0014", "9999"}
\* const myAccounts = ['1610', '3709', '0014', '9508']
myAccounts == {"1610", "3709", "0014", "9508"}

\* date: the Date of the Date header; destino, origen, tarjeta: the digits
\* after "Producto destino:", "Producto origen:" and of the card; monto: an
\* amount is found; fecha: no date token is found ("none"), or one that names
\* a day of the calendar ("valid"), or one that names none, as 31/02/2025
\* ("invalid"); hora: "Hora: hh:mm:ss" is found
Docs ==
  [from : Froms, subject : Subjects, htmlBody : BOOLEAN, date : {"valid", "invalid"},
   destino : Instruments, origen : Instruments, tarjeta : {None, "5550"}, monto : BOOLEAN,
   fecha : {"none", "valid", "invalid"}, hora : BOOLEAN]

\* the date of a transaction: that of the date token of the body, the day the
\* Date constructor rolls an impossible day over to, that of the Date
\* header, or the empty string
TxDates == {"body", "rolled", "received", ""}

\* crypto.createHash('md5').update(`${bank}:${account}:${date}:${amount}:${payee}:${direction}`)
md5(bank, account, date, direction) == <<bank, account, date, direction>>

Tx(bank, account, date, direction) ==
  [kind |-> "tx",
   txs |-> <<[id |-> md5(bank, account, date, direction), bank |-> bank, account |-> account,
              date |-> date, direction |-> direction]>>]
ReturnsNull == [kind |-> "null", txs |-> <<>>]
\* format(txDate, 'yyyy-MM-dd') of date-fns throws a RangeError on an Invalid Date
ThrowsRangeError == [kind |-> "throws", txs |-> <<>>]

BHDcanParse(message) ==
  /\ "Alertas@bhd.com.do" \in message.from
  /\ message.subject \cap {"BHD Notificacion de Transacciones", "Transacciones entre mis productos",
                           "Transferencias a terceros", "Pago de Servicios"} # {}
QIKcanParse(message) ==
  /\ "notificaciones@qik.do" \in message.from
  /\ "Usaste tu tarjeta de credito Qik" \in message.subject
CaribecanParse(message) ==
  /\ "NOTIFICACIONES@bancocaribe.com.do" \in message.from
  /\ message.subject \cap {"Notificacion Caribe", "Tarjeta de Credito Caribe", "transaccion"} # {}

\* a registry that returns the parser registered last among those that accept
findParser_Last(message) ==
  IF CaribecanParse(message) THEN "CARIBE"
  ELSE IF QIKcanParse(message) THEN "QIK"
  ELSE IF BHDcanParse(message) THEN "BHD"
  ELSE None

\* ParserRegistry.findParser: this.parsers.find(p => p.canParse(message)),
\* the parsers registered in the order BHD, QIK, CARIBE
findParser(message) ==
  IF BHDcanParse(message) THEN "BHD"
  ELSE IF QIKcanParse(message) THEN "QIK"
  ELSE IF CaribecanParse(message) THEN "CARIBE"
  ELSE None

\* date = isValid(parsedDate) ? parsedDate.toISOString().split('T')[0] : ''
BHDdate(message) == IF message.fecha = "valid" THEN "body" ELSE ""

\* a parseTransfer that leaves the record on the destination
parseTransfer_KeepDestination(message) ==
  IF ~message.monto THEN ReturnsNull
  ELSE LET account == message.destino
           direction == IF account # None /\ account \in myAccounts THEN "inflow" ELSE "outflow"
       IN Tx("BHD", account, BHDdate(message), direction)

\* a parseTransfer that records the side of the origin whenever it is mine
parseTransfer_OriginFirst(message) ==
  IF ~message.monto THEN ReturnsNull
  ELSE LET account == message.destino
           originAccount == message.origen
           direction == IF account # None /\ account \in myAccounts THEN "inflow" ELSE "outflow"
       IN IF originAccount # None /\ originAccount \in myAccounts
            THEN Tx("BHD", originAccount, BHDdate(message), "outflow")
          ELSE Tx("BHD", account, BHDdate(message), direction)

\* BHDParser.parseTransfer
parseTransfer(message) ==
  IF ~message.monto THEN ReturnsNull
  ELSE LET account == message.destino
           originAccount == message.origen
           direction == IF account # None /\ account \in myAccounts THEN "inflow" ELSE "outflow"
       IN IF /\ account # None /\ account \notin myAccounts
             /\ originAccount # None /\ originAccount \in myAccounts
            THEN Tx("BHD", originAccount, BHDdate(message), "outflow")
          ELSE Tx("BHD", account, BHDdate(message), direction)

\* BHDParser.parseNotification, for a payee and a type without the words of a
\* credit: the row of the table starts with a date token and has an amount
parseNotification(message) ==
  IF message.fecha = "none" \/ ~message.monto THEN ReturnsNull
  ELSE Tx("BHD", message.tarjeta, BHDdate(message), "outflow")

\* BHDParser.parse
BHDparse(message) ==
  IF ~message.htmlBody THEN ReturnsNull
  ELSE IF message.subject \cap {"Transacciones entre mis productos", "Transferencias a terceros"} # {}
    THEN parseTransfer(message)
  ELSE parseNotification(message)

\* txDate, then format(txDate, 'yyyy-MM-dd'): new Date(year, month - 1, day,
\* hour, minute) is a valid Date for any digits (it rolls over), unless an
\* argument is NaN; an invalid txDate is replaced by message.date
Formatted(bank, account, txDate, message) ==
  IF txDate # "invalid" THEN Tx(bank, account, txDate, "outflow")
  ELSE IF message.date = "valid" THEN Tx(bank, account, "received", "outflow")
  ELSE ThrowsRangeError

\* QIKParser.parse
QIKparse(message) ==
  IF ~message.htmlBody THEN ReturnsNull
  ELSE IF message.tarjeta = None THEN ReturnsNull
  ELSE IF ~message.monto THEN ReturnsNull
  ELSE LET txDate == IF message.fecha = "valid" THEN "body"
                     ELSE IF message.fecha = "invalid" THEN "rolled"
                     ELSE IF message.date = "valid" THEN "received" ELSE "invalid"
       IN Formatted("QIK", message.tarjeta, txDate, message)

\* CaribeParser.parse
Caribeparse(message) ==
  IF ~message.htmlBody THEN ReturnsNull
  ELSE IF message.tarjeta = None THEN ReturnsNull
  ELSE IF ~message.monto THEN ReturnsNull
  ELSE LET fromToken == IF message.fecha = "valid" THEN "body" ELSE "rolled"
           txDate == IF message.fecha # "none" /\ message.hora THEN fromToken
                     ELSE IF message.fecha # "none"
                       THEN (IF message.date = "valid" THEN fromToken ELSE "invalid")
                     ELSE IF message.date = "valid" THEN "received" ELSE "invalid"
       IN Formatted("CARIBE", message.tarjeta, txDate, message)

\* parser.parse(fullMsg)
parse(p, message) ==
  IF p = "BHD" THEN BHDparse(message)
  ELSE IF p = "QIK" THEN QIKparse(message)
  ELSE Caribeparse(message)

InitParse ==
  /\ ProgramIdle
  /\ BackoffIdle
  /\ RulesIdle
  /\ doc \in Docs
  /\ parser = NotCalled
  /\ parsed = NoCall

\* const parser = parserRegistry.findParser(fullMsg)
FindParser ==
  /\ parser = NotCalled
  /\ parser' = findParser(doc)
  /\ UNCHANGED <<doc, parsed, backoffVars, rulesVars>>
  /\ ProgramUnchanged

\* const transaction = parser.parse(fullMsg)
Parse ==
  /\ parser \notin {NotCalled, None} /\ parsed = NoCall
  /\ parsed' = parse(parser, doc)
  /\ UNCHANGED <<doc, parser, backoffVars, rulesVars>>
  /\ ProgramUnchanged

NextParse ==
  \/ FindParser
  \/ Parse

SpecParse == InitParse /\ [][NextParse]_vars

(***************************************************************************)
(* RulesEngine.apply alone (rules/engine.ts), called with the transaction  *)
(* a parser returned and the rules of config/rules.json.  A text is a      *)
(* sequence of words and the case it is written in; a pattern is one word  *)
(* and its case, and `new RegExp(rule.match, 'i').test(payee)` searches    *)
(* the payee for the pattern's word whatever the two cases are.  A memo is *)
(* the sequence of its pieces, the separator ' ' being a piece.  Every     *)
(* pattern of the rules file is a regular expression RegExp accepts.       *)
(***************************************************************************)
Text(words, upper) == [words |-> words, upper |-> upper]
Pattern(word, upper) == [word |-> word, upper |-> upper]

\* interface Rule { match: string; payee?: string; memo?: string }
Rule(match, payee, memo) == [match |-> match, payee |-> payee, memo |-> memo]

Patterns == {Pattern("amzn", FALSE), Pattern("amazon", FALSE), Pattern("uber", TRUE)}
Replacements == {Text(<<"amazon">>, TRUE), Text(<<"shopping">>, FALSE)}
RuleMemos == {"online", "web"}
Rules == {Rule(m, p, n) : m \in Patterns,
                          p \in {Null} \cup {Some(x) : x \in Replacements},
                          n \in {Null} \cup {Some(x) : x \in RuleMemos}}
RuleLists == UNION {[1..n -> Rules] : n \in 0..MaxRules}

\* the transactions a parser hands over: payee and memo vary
Payees == {Text(<<"amzn", "mktp">>, TRUE), Text(<<"uber">>, FALSE)}
Memos == {<<>>, <<"compra">>}
Transactions == {[id |-> "t1", account |-> "1234", date |-> 20260101,
                  amount |-> 3000000, direction |-> "outflow",
                  payee |-> p, memo |-> n] : p \in Payees, n \in Memos}

\* the value of an optional field that is present
Value(field) == CHOOSE v \in field : TRUE

test_CaseSensitive(match, payee) ==
  /\ match.word \in Range(payee.words)
  /\ match.upper = payee.upper

\* new RegExp(rule.match, 'i').test(t.payee)
test(match, payee) == match.word \in Range(payee.words)

\* the body of the loop over rules.merchant_normalization, from rule k on
RECURSIVE applyFrom(_, _, _)
applyFrom(list, k, t) ==
  IF k > Len(list) THEN t
  ELSE LET rule == list[k]
           matched ==
             [t EXCEPT !.payee = IF rule.payee # Null THEN Value(rule.payee) ELSE @,
                       !.memo = IF rule.memo # Null
                                  THEN (IF @ # <<>> THEN @ \o <<" ">> ELSE <<>>)
                                       \o <<Value(rule.memo)>>
                                  ELSE @]
       IN applyFrom(list, k + 1, IF test(rule.match, t.payee) THEN matched ELSE t)

\* apply(transaction): let t = { ...transaction }; ...; return t
apply(list, tx) == applyFrom(list, 1, tx)

InitRules ==
  /\ ProgramIdle
  /\ BackoffIdle
  /\ ParseIdle
  /\ rules \in RuleLists
  /\ transaction \in Transactions
  /\ normalized = NoCall

\* const normalized = rulesEngine.apply(transaction)
Apply ==
  /\ normalized = NoCall
  /\ normalized' = apply(rules, transaction)
  /\ UNCHANGED <<rules, transaction, backoffVars, parseVars>>
  /\ ProgramUnchanged

NextRules == Apply

SpecRules == InitRules /\ [][NextRules]_vars

(***************************************************************************)
(* The ingestion on its own: sync runs of a program whose ledger is not    *)
(* configured (loadYNABConfig throws), with a store whose statements can   *)
(* fail.  The content of a message is remembered after the message is      *)
(* marked processed, so that a marker can be compared with the transaction *)
(* of its message.                                                         *)
(***************************************************************************)
\* the content getMessage + parser give for message m, kept for good
FetchDoc(m, c) ==
  /\ c \in Contents
  /\ mail[m] \in {Unseen, c}
  /\ mail' = [mail EXCEPT ![m] = c]

\* the loop body for a transaction dated before --min-date: insertProcessed only
IngestFilteredDoc ==
  /\ pc = "ingest" /\ queue # <<>>
  /\ LET m == Head(queue) IN
       /\ m \notin processed
       /\ \E t \in ParsedTx :
            /\ FetchDoc(m, t)
            /\ run.minDate # 0 /\ t.date < run.minDate
       /\ processed' = processed \cup {m}
  /\ queue' = Tail(queue)
  /\ UNCHANGED <<store, unparsed, pc, run, newCount, errorCount, runs, caught, classified, callVars>>
  /\ RunUnchanged

\* insertTx.run(normalized); newCount++ if it changed a row; insertProcessed
IngestInsertDoc ==
  /\ pc = "ingest" /\ queue # <<>>
  /\ LET m == Head(queue) IN
       /\ m \notin processed
       /\ \E t \in ParsedTx :
            /\ FetchDoc(m, t)
            /\ ~(run.minDate # 0 /\ t.date < run.minDate)
            /\ \E n \in Timestamps(store, t.date) : store' = insertTx(store, t, m, n)
            /\ newCount' = newCount + insertChanges(store, t)
       /\ processed' = processed \cup {m}
  /\ queue' = Tail(queue)
  /\ UNCHANGED <<unparsed, pc, run, errorCount, runs, caught, classified, callVars>>
  /\ RunUnchanged

\* a catch that marks the message of the failed insert as processed
IngestInsertError_Marked ==
  /\ pc = "ingest" /\ queue # <<>>
  /\ LET m == Head(queue) IN
       /\ m \notin processed
       /\ \E t \in ParsedTx :
            /\ FetchDoc(m, t)
            /\ ~(run.minDate # 0 /\ t.date < run.minDate)
       /\ processed' = processed \cup {m}
  /\ errorCount' = errorCount + 1
  /\ queue' = Tail(queue)
  /\ UNCHANGED <<store, unparsed, pc, run, newCount, runs, caught, classified, callVars>>
  /\ RunUnchanged

\* insertTx.run throws (the store is locked, the disk is full, a value cannot
\* be bound), or insertProcessed.run throws after the row was inserted: the
\* catch classifies the error and counts it, and the loop goes on
IngestInsertError ==
  /\ pc = "ingest" /\ queue # <<>>
  /\ LET m == Head(queue) IN
       /\ m \notin processed
       /\ \E t \in ParsedTx :
            /\ FetchDoc(m, t)
            /\ ~(run.minDate # 0 /\ t.date < run.minDate)
            /\ \/ UNCHANGED <<store, newCount>>
               \/ /\ \E n \in Timestamps(store, t.date) : store' = insertTx(store, t, m, n)
                  /\ newCount' = newCount + insertChanges(store, t)
  /\ errorCount' = errorCount + 1
  /\ queue' = Tail(queue)
  /\ UNCHANGED <<processed, unparsed, pc, run, runs, caught, classified, callVars>>
  /\ RunUnchanged

NextIngest ==
  \/ StartSync
  \/ IngestSkip
  \/ IngestUnparsed
  \/ IngestFilteredDoc
  \/ IngestInsertDoc
  \/ IngestInsertError
  \/ EndIngest
  \/ LoadConfigFail
  \/ Return

SpecIngest == Init /\ [][NextIngest]_vars

(***************************************************************************)
(* Properties.                                                             *)
(***************************************************************************)
\* the three reconciliation states of a row (spec, data model)
Pending(r) == r.ynab_synced_at = Null /\ r.ynab_sync_error = Null
Failed(r) == r.ynab_sync_error # Null
Synced(r) == r.ynab_transaction_id # Null

HasMapping(r) == r.account \in DOMAIN accountMappings
PassesMinDate(r) == run.minDate = 0 \/ r.date >= run.minDate

\* the rows a request of this run carried
Submitted == UNION {Range(calls[k].ids) : k \in DOMAIN calls}
SingleCalls(i) == {k \in DOMAIN calls : calls[k].mode = "single" /\ calls[k].ids = <<i>>}
FailedBatches == {k \in DOMAIN calls : calls[k].mode = "batch" /\ ~calls[k].ok}

\* the YNAB accounts the selected rows resolve to
SelectedAccounts == {accountMappings[store[i].account] : i \in {j \in Range(sel) : HasMapping(store[j])}}

\* C1 (as claimed): at the end of a run, the batch of every account group of
\* the selected rows has been submitted to the ledger, also when the batch of
\* another group failed.
C1_EveryGroupSubmitted ==
  pc = "done" =>
    \A a \in SelectedAccounts :
      \E k \in DOMAIN calls : calls[k].mode = "batch" /\ calls[k].accountId = a

\* C2: when the batch of a group of more than one row failed with a retryable
\* error, every row of the group has exactly one individual submission, a row
\* whose submission returned an id is recorded synced with it, and a row whose
\* submission failed is recorded failed with the kind of its own error.
C2_IndividualFallback ==
  pc = "done" =>
    \A b \in FailedBatches :
      (calls[b].retryable /\ Len(calls[b].ids) > 1) =>
        \A i \in Range(calls[b].ids) :
          /\ Cardinality(SingleCalls(i)) = 1
          /\ \A k \in SingleCalls(i) :
               /\ i \in calls[k].created =>
                    store[i].ynab_transaction_id = Some(LedgerId(i)) /\ ~Failed(store[i])
               /\ ~calls[k].ok =>
                    /\ store[i].ynab_sync_error_type = Some(calls[k].type)
                    /\ Failed(store[i]) /\ ~Synced(store[i])

\* witness of C2: a retryable batch failure of a two-row group after which one
\* row's individual submission failed and its sibling's returned an id
C2_Witness ==
  /\ pc = "done"
  /\ \E b \in FailedBatches :
       /\ calls[b].retryable /\ Len(calls[b].ids) > 1
       /\ \E i, j \in Range(calls[b].ids) :
            /\ Failed(store[i]) /\ Synced(store[j])
            /\ \E k \in SingleCalls(i), l \in SingleCalls(j) : k < l

\* C3 (as claimed): after a batch failure that is non-retryable, or of a
\* single-row group, there is no individual submission and every row of the
\* group is recorded failed with the kind of the batch failure.
C3_GroupShortCircuit ==
  pc = "done" =>
    \A b \in FailedBatches :
      (~calls[b].retryable \/ Len(calls[b].ids) = 1) =>
        /\ \A k \in DOMAIN calls : calls[k].mode # "single"
        /\ \A i \in Range(calls[b].ids) :
             Failed(store[i]) /\ store[i].ynab_sync_error_type = Some(calls[b].type)

\* C3 (amended): after a batch failure that is non-retryable, or in a run that
\* selected a single row, there is no individual submission and every row of
\* the group is recorded failed with the kind of the batch failure.
C3_RunShortCircuit ==
  pc = "done" =>
    \A b \in FailedBatches :
      (~calls[b].retryable \/ Len(sel) = 1) =>
        /\ \A k \in DOMAIN calls : calls[k].mode # "single"
        /\ \A i \in Range(calls[b].ids) :
             Failed(store[i]) /\ store[i].ynab_sync_error_type = Some(calls[b].type)

\* witness of C3: a non-retryable failure of the batch of a two-row group
C3_Witness ==
  /\ pc = "done"
  /\ \E b \in FailedBatches : ~calls[b].retryable /\ Len(calls[b].ids) > 1

\* C4: every row is in exactly one of the states pending, failed, synced.
C4_StatePartition ==
  \A i \in DOMAIN store :
    LET r == store[i] IN
      /\ Pending(r) \/ Failed(r) \/ Synced(r)
      /\ ~(Pending(r) /\ Failed(r))
      /\ ~(Pending(r) /\ Synced(r))
      /\ ~(Failed(r) /\ Synced(r))

\* witness of C4: a row that was recorded failed and later recorded synced
C4_Witness ==
  \E i \in DOMAIN store : Synced(store[i]) /\ store[i].ynab_sync_last_retry # Null

\* C5: a row with a ledger transaction id is never selected again, never
\* submitted again, and none of its columns changes again.
C5_SyncedAbsorbing ==
  [][\A i \in DOMAIN store :
       Synced(store[i]) =>
         /\ i \in DOMAIN store' /\ store'[i] = store[i]
         /\ (sel' # sel => i \notin Range(sel'))
         /\ \A k \in DOMAIN calls' : (k \notin DOMAIN calls \/ calls'[k] # calls[k]) =>
                                       i \notin Range(calls'[k].ids)]_vars

\* witness of C5: a retry run that selected rows and sent a request while the
\* store holds a synced row
C5_Witness ==
  /\ run.kind = "retry" /\ sel # <<>> /\ calls # <<>>
  /\ \E i \in DOMAIN store : Synced(store[i]) /\ i \notin Range(sel)

\* C6: the state of a row changes only from pending to synced, from pending
\* to failed or from failed to synced (or stays what it is).
RowState(r) == IF Failed(r) THEN "FAILED" ELSE IF Synced(r) THEN "SYNCED" ELSE "PENDING"

C6_Transitions ==
  [][\A i \in DOMAIN store :
       /\ i \in DOMAIN store'
       /\ \/ RowState(store'[i]) = RowState(store[i])
          \/ <<RowState(store[i]), RowState(store'[i])>> \in
               {<<"PENDING", "SYNCED">>, <<"PENDING", "FAILED">>, <<"FAILED", "SYNCED">>}]_vars

\* witness of C6: a row recorded failed twice (failed, retried, failed again)
C6_Witness ==
  \E i \in DOMAIN store : Failed(store[i]) /\ store[i].ynab_sync_retry_count = 2

\* C7: ingesting a document whose transaction id is already stored leaves
\* every stored row as it is, adds no row and does not count as new; a
\* document with a new id adds exactly one row and counts once.
C7_InsertIdempotent ==
  [][pc = "ingest" =>
       /\ \A i \in DOMAIN store : i \in DOMAIN store' /\ store'[i] = store[i]
       /\ Cardinality(DOMAIN store' \ DOMAIN store) <= 1
       /\ newCount' = newCount + Cardinality(DOMAIN store' \ DOMAIN store)]_vars

\* witness of C7: two documents were ingested without a date filter and the
\* store holds a single row, counted as new once
C7_Witness ==
  /\ run.kind = "sync" /\ run.minDate = 0 /\ runs = 1
  /\ Cardinality(processed) = 2
  /\ Cardinality(DOMAIN store) = 1
  /\ newCount = 1

\* C8 (as claimed): when a sync run whose configuration loaded ends, every
\* row that is pending and passes the date filter has been submitted to the
\* ledger in that run.
C8_PendingSubmitted ==
  (pc = "done" /\ run.kind = "sync" /\ run.config # "failed") =>
    \A i \in DOMAIN store :
      (Pending(store[i]) /\ PassesMinDate(store[i])) => i \in Submitted

\* C8 (amended): a sync run that inserted no new transaction selects nothing
\* and sends nothing; a sync run that inserted one and loaded its
\* configuration selects exactly the pending rows that pass the date filter,
\* and every selected row with a mapping is submitted or recorded failed with
\* the error of the failed batch.
C8_SelectsPending ==
  [][run.kind = "sync" =>
       /\ (pc = "ingest" /\ pc' # "ingest") =>
            IF newCount = 0 THEN pc' = "done" /\ sel' = <<>> /\ calls' = <<>>
            ELSE pc' = "recon"
       /\ (pc = "recon" /\ run'.config = "loaded") =>
            /\ Range(sel') = {i \in DOMAIN store : Pending(store[i]) /\ PassesMinDate(store[i])}
            /\ sel' # <<>>
       /\ (pc = "writeback" /\ pc' = "done") =>
            \A i \in Range(sel) :
              HasMapping(store[i]) =>
                \/ i \in Submitted
                \/ \E b \in FailedBatches :
                     store'[i].ynab_sync_error_type = Some(calls[b].type)]_vars

\* witness of C8: a sync run that inserted a new row selected it together with
\* a row an earlier run left pending
C8_Witness ==
  /\ run.kind = "sync" /\ runs = 2 /\ newCount = 1
  /\ pc = "done" /\ Len(sel) = 2
  /\ Range(sel) \subseteq Submitted

\* C9: no request to the ledger, batch or individual, carries a row whose
\* bank account has no mapping.
C9_UnmappedNeverSubmitted ==
  \A k \in DOMAIN calls :
    \A i \in Range(calls[k].ids) : HasMapping(store[i])

\* witness of C9: a run with a row without a mapping went through the batch
\* and through the individual fallback
C9_Witness ==
  /\ pc = "done"
  /\ \E i \in Range(sel) : ~HasMapping(store[i])
  /\ \E k, l \in DOMAIN calls : calls[k].mode = "batch" /\ calls[l].mode = "single"

\* C10 (as claimed): at the end of a run every selected row without a mapping
\* is recorded failed with CONFIGURATION_ERROR.
C10_UnmappedConfigurationError ==
  pc = "done" =>
    \A i \in Range(sel) :
      ~HasMapping(store[i]) =>
        Failed(store[i]) /\ store[i].ynab_sync_error_type = Some("CONFIGURATION_ERROR")

\* the failed requests of this run that carried row i, and the last of them
FailedCalls(i) == {k \in DOMAIN calls : ~calls[k].ok /\ i \in Range(calls[k].ids)}
LastFailedCall(i) == CHOOSE k \in FailedCalls(i) : \A l \in FailedCalls(i) : l <= k

C12_AbortResumable ==
  [][
      /\ \A i \in DOMAIN store' :
           LET r == store'[i] IN
             Cardinality({x \in {"pending", "failed", "synced"} :
                            \/ x = "pending" /\ Pending(r)
                            \/ x = "failed" /\ Failed(r)
                            \/ x = "synced" /\ Synced(r)}) = 1
      /\ DOMAIN store \subseteq DOMAIN store'
      /\ \A m \in Msgs :
           (mail[m] \in ParsedTx /\ pc' # "idle") =>
             /\ mail[m].id \in DOMAIN store
             /\ m \in processed' => (DOMAIN store' = DOMAIN store /\ newCount' = newCount)
      /\ \A m \in processed' \ processed :
           \A t \in {mail[m], mail'[m]} \cap ParsedTx :
             \/ t.id \in DOMAIN store'
             \/ run.minDate # 0 /\ t.date < run.minDate
    ]_vars

\* witness of C12: a run was killed between the insertion of a row and the
\* marking of its message, and a later run was killed inside its write-back
\* loop after it had updated another row
C12_Witness ==
  /\ pc = "idle" /\ runs = 2
  /\ \E m \in Msgs :
       /\ m \notin processed /\ mail[m] \in ParsedTx
       /\ mail[m].id \in DOMAIN store /\ Pending(store[mail[m].id])
  /\ \E i \in DOMAIN store : ~Pending(store[i])

\* C13: the rows a sync run or a retry run selected are in ascending order of
\* date and, among rows of one date, in ascending order of created_at,
\* whatever the order of their insertion (rows of one date stamped in the
\* same second have no order between them).
C13_SelectionOrdered ==
  \A k, l \in DOMAIN sel :
    k < l =>
      \/ store[sel[k]].date < store[sel[l]].date
      \/ /\ store[sel[k]].date = store[sel[l]].date
         /\ store[sel[k]].created_at <= store[sel[l]].created_at

\* witness of C13: a sync run selected the row dated 2026-01-01 before the row
\* dated 2026-01-02 that was inserted first
C13_Witness ==
  /\ run.kind = "sync" /\ Len(sel) = 2
  /\ store[sel[1]].date = 20260101 /\ store[sel[2]].date = 20260102
  /\ store[sel[2]].created_at < store[sel[1]].created_at

\* the place of a selected row in the selection, and the first request of the
\* run that carried the row
Pos(i) == CHOOSE k \in DOMAIN sel : sel[k] = i
FirstCall(i) == CHOOSE k \in DOMAIN calls :
                  /\ i \in Range(calls[k].ids)
                  /\ \A l \in DOMAIN calls : i \in Range(calls[l].ids) => k <= l

\* C14 (as claimed): of any two selected rows that were submitted, the one that
\* comes first in the stable order was submitted no later than the other.
C14_SubmissionOrder ==
  \A k, l \in DOMAIN sel :
    (k < l /\ sel[k] \in Submitted /\ sel[l] \in Submitted) =>
      FirstCall(sel[k]) <= FirstCall(sel[l])

\* C14 (amended): every request carries its rows in the stable order; the
\* batches of the accounts are sent in the order in which the first rows of
\* the accounts come in the selection; the individual submissions are sent
\* in the stable order; and two submitted rows of one account are submitted
\* in the stable order.
C14_GroupedOrder ==
  /\ \A c \in DOMAIN calls :
       \A a, b \in DOMAIN calls[c].ids : a < b => Pos(calls[c].ids[a]) < Pos(calls[c].ids[b])
  /\ \A c, e \in DOMAIN calls :
       (c < e /\ calls[c].mode = calls[e].mode) =>
         Pos(calls[c].ids[1]) < Pos(calls[e].ids[1])
  /\ \A k, l \in DOMAIN sel :
       (/\ k < l /\ sel[k] \in Submitted /\ sel[l] \in Submitted
        /\ store[sel[k]].account = store[sel[l]].account) =>
         FirstCall(sel[k]) <= FirstCall(sel[l])

\* witness of C14: the batch of one account carried its first and its third
\* selected row, and the batch of the other account, sent after it, carried
\* the second
C14_Witness ==
  /\ Len(sel) = 3 /\ Len(calls) = 2
  /\ calls[1].mode = "batch" /\ calls[1].ids = <<sel[1], sel[3]>>
  /\ calls[2].mode = "batch" /\ calls[2].ids = <<sel[2]>>

\* C15: no step of a sync or retry run removes a row or changes the account,
\* the date, the source message id or the creation stamp of a stored row;
\* only its reconciliation status columns change.
C15_FinancialFieldsFrozen ==
  [][\A i \in DOMAIN store :
       /\ i \in DOMAIN store'
       /\ store'[i].account = store[i].account
       /\ store'[i].date = store[i].date
       /\ store'[i].rawMessageId = store[i].rawMessageId
       /\ store'[i].created_at = store[i].created_at]_vars

\* witness of C15: a retry run has ended that recorded one row failed again
\* and another row synced
C15_Witness ==
  /\ pc = "done" /\ run.kind = "retry"
  /\ \E i, j \in DOMAIN store :
       /\ store[i].ynab_sync_retry_count = 2
       /\ Synced(store[j]) /\ store[j].ynab_sync_last_retry # Null

\* C16: when loadYNABConfig fails, the step that abandons the reconciliation
\* leaves every row (the rows the ingestion of the same run inserted among
\* them) with all its columns, leaves every processed marker, and the run
\* ends without a selection and without a request to the ledger.
C16_ConfigFailureKeepsIngestion ==
  [][run'.config = "failed" =>
       /\ store' = store
       /\ processed' = processed
       /\ unparsed' = unparsed
       /\ newCount' = newCount
       /\ pc' = "done"
       /\ sel' = <<>> /\ calls' = <<>> /\ results' = Empty /\ syncErrors' = Empty]_vars

\* witness of C16: a sync run inserted two rows and marked two messages, then
\* failed to load the configuration
C16_Witness ==
  /\ pc = "done" /\ run.kind = "sync" /\ run.config = "failed" /\ runs = 1
  /\ newCount = 2 /\ Cardinality(processed) = 2
  /\ Cardinality(DOMAIN store) = 2
  /\ \A i \in DOMAIN store : Pending(store[i])

\* the attempts counter of the quarantine row of document m (0: no row)
Attempts(u, m) == IF m \in DOMAIN u THEN u[m] ELSE 0

\* C17: the quarantine table holds at most one row per document id, whose
\* counter changes only by steps of exactly 1; each time the extraction of a
\* document returns null (the step that counts it in errorCount) the counter
\* of that document goes up by exactly 1, from 0 to 1 the first time; and a
\* counter changes only for the document the ingestion loop is at, when it
\* could not be parsed.
C17_QuarantineCounts ==
  [][\A m \in Msgs :
       /\ Attempts(unparsed', m) \in {Attempts(unparsed, m), Attempts(unparsed, m) + 1}
       /\ (errorCount' = errorCount + 1 /\ queue # <<>> /\ m = Head(queue)) =>
            /\ mail'[m].kind = "parse-null"
            /\ Attempts(unparsed', m) = Attempts(unparsed, m) + 1
       /\ Attempts(unparsed', m) # Attempts(unparsed, m) =>
            /\ pc = "ingest" /\ queue # <<>> /\ m = Head(queue)
            /\ mail'[m].kind \in {"parse-null", "no-parser"}]_vars

\* witness of C17: the extraction of a document returned null in two runs and
\* its quarantine row counts two attempts
C17_Witness ==
  /\ runs = 2 /\ pc = "ingest" /\ errorCount = 1
  /\ \E m \in Msgs : mail[m].kind = "parse-null" /\ Attempts(unparsed, m) = 2

\* C18 (as claimed): every document a run has handled, also one whose
\* extraction failed, carries the processed marker and is parsed once only.
C18_HandledMarked ==
  \A m \in DOMAIN unparsed : m \in processed /\ unparsed[m] <= 1

\* C18 (amended): a processed marker is never removed; a marked document is
\* passed over by the ingestion loop without a change of any table or
\* counter; a marker is written only by the step that handles a document
\* whose extraction gave a transaction; and a document whose extraction
\* failed is never marked, so that later runs parse it again.
C18_ParsedMarkedOnly ==
  [][/\ processed \subseteq processed'
     /\ \A m \in processed :
          (pc = "ingest" /\ queue # <<>> /\ m = Head(queue)) =>
            /\ store' = store /\ unparsed' = unparsed /\ mail' = mail
            /\ newCount' = newCount /\ errorCount' = errorCount
     /\ \A m \in processed' \ processed :
          /\ pc = "ingest" /\ queue # <<>> /\ m = Head(queue)
          /\ unparsed' = unparsed
          /\ mail'[m].kind \notin {"parse-null", "no-parser"}
     /\ \A m \in Msgs :
          mail'[m].kind \in {"parse-null", "no-parser"} => m \notin processed']_vars

\* witness of C18: in its second run the ingestion passed over a marked
\* document and parsed again a document whose extraction had failed before
C18_Witness ==
  /\ runs = 2 /\ pc = "ingest" /\ queue = <<>>
  /\ \E m \in processed : store # Empty /\ newCount = 0
  /\ \E m \in Msgs \ processed : Attempts(unparsed, m) = 2

\* the types classifyError marks retryable
Retryable == {"NETWORK_ERROR", "RATE_LIMIT", "TIMEOUT", "SERVER_ERROR"}

\* the value caught matches no branch of classifyError
MatchesNothing(e) ==
  /\ ~e.app
  /\ e.status \notin {429, 401, 403, 404, 400, 422} /\ e.status < 500
  /\ e.code \notin {"ECONNRESET", "ETIMEDOUT", "ENOTFOUND"}
  /\ e.kw \cap {"timeout", "TIMEOUT", "not found", "required"} = {}

\* the classification table, for the call classifyError(e, ...) = r
Table(e, r) ==
  /\ r.app /\ r.type \in ErrorType
  /\ r.retryable <=> r.type \in Retryable
  /\ (~e.app /\ e.status = 429) => r.type = "RATE_LIMIT"
  /\ (~e.app /\ e.status \in {401, 403}) => r.type = "AUTHENTICATION_ERROR"
  /\ (~e.app /\ e.status = 404) => r.type = "NOT_FOUND"
  /\ (~e.app /\ e.status \in {400, 422}) => r.type = "VALIDATION_ERROR"
  /\ (~e.app /\ e.status \in 500..599) => r.type = "SERVER_ERROR"
  /\ MatchesNothing(e) => (r.type = "UNKNOWN_ERROR" /\ ~r.retryable)

\* C19 (as claimed): for every value caught, classifyError returns an AppError
\* whose type is one of the ten error types and whose retryable flag is set
\* exactly for NETWORK_ERROR, RATE_LIMIT, TIMEOUT and SERVER_ERROR; a response
\* status 429 gives RATE_LIMIT, 401/403 AUTHENTICATION_ERROR, 404 NOT_FOUND,
\* 400/422 VALIDATION_ERROR, any 5xx SERVER_ERROR; a value that matches no
\* branch gives UNKNOWN_ERROR, not retryable.
C19_Classification ==
  classified # NoCall => Table(caught.error, classified)

\* the same table holds of every call whose argument is an object
ClassificationOfObjects ==
  (classified # NoCall /\ caught.error.obj) => Table(caught.error, classified)

\* C20: classifying an AppError returns that same error: its type, message,
\* retryable flag, httpStatus and context are those of the argument, whatever
\* context is passed with it.
C20_Idempotent ==
  (classified # NoCall /\ caught.error.app) =>
    /\ classified.type = caught.error.type
    /\ classified.message = caught.error.message
    /\ classified.retryable = caught.error.retryable
    /\ classified.httpStatus = caught.error.httpStatus
    /\ classified.context = caught.error.context
    /\ classified = caught.error

\* an AppError that carries one context has been classified again with
\* another one
C20_Witness ==
  /\ classified # NoCall /\ caught.error.app
  /\ caught.context # Null
  /\ caught.error.context # Null
  /\ caught.context # caught.error.context

\* the invocations of fn in the trace, in order
FnCalls == SelectSeq(trace, LAMBDA c : c.ev = "fn")
\* the delays slept, in order
Sleeps == SelectSeq(trace, LAMBDA c : c.ev = "sleep")
\* the call has come to an end
Finished == outcome.state \in {"returned", "thrown"}
\* the invocation threw an error that classifyError marks retryable
FailedRetryably(c) ==
  ~c.ok /\ classifyError(c.error, Null).app /\ classifyError(c.error, Null).retryable

\* fn is invoked at most maxRetries + 1 times, 4 times with the defaults; a
\* call that returned made its only successful invocation last and returned
\* its value; a call all of whose invocations failed retryably has made
\* maxRetries + 1 of them and has thrown the classified error of the last
BackoffBounded ==
  /\ Len(FnCalls) <= options.maxRetries + 1
  /\ options = DefaultOptions => Len(FnCalls) <= 4
  /\ outcome.state = "returned" =>
       /\ trace[Len(trace)] = FnCall(TRUE, outcome.value, Nullish)
       /\ \A k \in 1..(Len(trace) - 1) : ~(trace[k].ev = "fn" /\ trace[k].ok)
       /\ outcome.value = Len(FnCalls)
  /\ (Finished /\ \A k \in DOMAIN FnCalls : FailedRetryably(FnCalls[k])) =>
       /\ Len(FnCalls) = options.maxRetries + 1
       /\ outcome = Threw(classifyError(FnCalls[Len(FnCalls)].error, Null))
       /\ trace[Len(trace)].ev = "fn"

\* C21: retryWithBackoff always terminates, invokes fn at most maxRetries + 1
\* times (4 with the defaults), returns the value of the first successful
\* invocation without invoking fn again, and when every invocation fails
\* retryably throws the classified error of the last invocation.
C21_Terminates == []BackoffBounded /\ <>Finished

\* all maxRetries + 1 invocations failed retryably and the call has thrown
C21_Witness ==
  /\ options = DefaultOptions
  /\ outcome.state = "thrown"
  /\ Len(FnCalls) = 4
  /\ \A k \in DOMAIN FnCalls : FailedRetryably(FnCalls[k])

\* C22: an invocation that fails with a non-retryable classification is the
\* last call the helper makes: no invocation, no sleep and no onRetry follows
\* it, and the helper throws the classified error of that invocation.
C22_AbortsAtOnce ==
  \A k \in DOMAIN trace :
    (/\ trace[k].ev = "fn" /\ ~trace[k].ok
     /\ classifyError(trace[k].error, Null).app
     /\ ~classifyError(trace[k].error, Null).retryable) =>
      /\ k = Len(trace)
      /\ outcome = Threw(classifyError(trace[k].error, Null))

\* a non-retryable failure on an attempt that is not the last one, of a call
\* that has an onRetry callback and has retried before
C22_Witness ==
  /\ options.onRetry /\ outcome.state = "thrown"
  /\ ~outcome.error.retryable /\ outcome.error.app
  /\ Len(FnCalls) \in 2..options.maxRetries

Rounded(amount, r) == 10 * r - 5 <= amount /\ amount < 10 * r + 5

\* every amount in the body of a request is round(amount * 1000) of its row,
\* negated for an outflow and as it is for an inflow
AmountsSubmitted ==
  \A k \in DOMAIN calls : \A j \in DOMAIN calls[k].ids :
    LET row == store[calls[k].ids[j]]
        sent == calls[k].amounts[j]
    IN /\ DOMAIN calls[k].amounts = DOMAIN calls[k].ids
       /\ row.direction = "outflow" => (sent <= 0 /\ Rounded(row.amount, -sent))
       /\ row.direction = "inflow" => (sent >= 0 /\ Rounded(row.amount, sent))

\* C24: every amount submitted to the ledger, in a batch request and in an
\* individual request alike, is the integer round(amount * 1000) of its row,
\* negated when the row is an outflow and positive when it is an inflow; no
\* step changes the amount or the direction of a stored row.
C24_Milliunits ==
  /\ []AmountsSubmitted
  /\ [][\A i \in DOMAIN store :
          /\ i \in DOMAIN store'
          /\ store'[i].amount = store[i].amount /\ store[i].amount >= 0
          /\ store'[i].direction = store[i].direction]_vars

\* a run has sent a batch request and individual requests, with an outflow
\* and an inflow whose amounts round up, and has written the outcomes back
C24_Witness ==
  /\ pc = "done"
  /\ \E k, l \in DOMAIN calls :
       /\ calls[k].mode = "batch" /\ calls[l].mode = "single" /\ calls[l].ok
       /\ calls[l].amounts = <<-1235>>
       /\ 1235 \in Range(calls[k].amounts)

\* BHDParser.parse has handed the message to parseTransfer
TransferParsed ==
  /\ parsed # NoCall /\ parser = "BHD" /\ doc.htmlBody
  /\ doc.subject \cap {"Transacciones entre mis productos", "Transferencias a terceros"} # {}
Mine(instrument) == instrument # None /\ instrument \in myAccounts

\* C25: a transfer notification with an amount whose destination is an
\* instrument that is not mine and whose origin is mine yields one record, an
\* outflow whose account is the origin and whose fingerprint is computed over
\* the origin.
C25_ThirdPartyOutflow ==
  (TransferParsed /\ doc.monto /\ doc.destino # None /\ ~Mine(doc.destino) /\ Mine(doc.origen)) =>
    /\ parsed.kind = "tx" /\ Len(parsed.txs) = 1
    /\ parsed.txs[1].direction = "outflow"
    /\ parsed.txs[1].account = doc.origen
    /\ parsed.txs[1].account # doc.destino
    /\ parsed.txs[1].id[2] = doc.origen /\ parsed.txs[1].id[4] = "outflow"

\* origin 0014, destination 9999
C25_Witness ==
  /\ TransferParsed /\ doc.monto
  /\ doc.origen = "0014" /\ doc.destino = "9999"
  /\ parsed.kind = "tx"

\* C26: a transfer notification with an amount whose destination is mine
\* yields exactly one record, an inflow whose account is the destination,
\* whether the origin is not mine, not found, or mine too.
C26_DestinationInflow ==
  (TransferParsed /\ doc.monto /\ Mine(doc.destino)) =>
    /\ parsed.kind = "tx" /\ Len(parsed.txs) = 1
    /\ parsed.txs[1].direction = "inflow"
    /\ parsed.txs[1].account = doc.destino
    /\ parsed.txs[1].id[2] = doc.destino

\* origin 0014 and destination 1610 are both mine
C26_Witness ==
  /\ TransferParsed /\ doc.monto
  /\ doc.origen = "0014" /\ doc.destino = "1610"
  /\ parsed.kind = "tx"

\* C27 (as claimed): a transfer notification in which neither the origin nor
\* the destination is mine yields null: no record is made of it.
C27_NeitherMineNull ==
  (TransferParsed /\ ~Mine(doc.destino) /\ ~Mine(doc.origen)) =>
    (parsed.kind = "null" /\ parsed.txs = <<>>)

\* C28 (as claimed): parse never throws, whatever the message: one that a
\* parser accepts but that cannot be extracted yields null.
C28_NeverThrows ==
  parsed # NoCall => parsed.kind \in {"tx", "null"}

\* C29 (as claimed): the date of the Date header is the date of the record
\* only when the body has no date token, and a date token that names no day
\* of the calendar yields null, not another date and not an empty one.
C29_DateFallback ==
  parsed # NoCall =>
    /\ (parsed.kind = "tx" /\ parsed.txs[1].date = "received") => doc.fecha = "none"
    /\ doc.fecha = "invalid" => parsed.kind = "null"

\* the parsers that accept the message
Accepting ==
  {p \in {"BHD", "QIK", "CARIBE"} :
     \/ p = "BHD" /\ BHDcanParse(doc)
     \/ p = "QIK" /\ QIKcanParse(doc)
     \/ p = "CARIBE" /\ CaribecanParse(doc)}
\* this.register(new BHDParser()); ...(new QIKParser()); ...(new CaribeParser())
Registered(p) == CHOOSE k \in 1..3 : <<"BHD", "QIK", "CARIBE">>[k] = p

\* C30: findParser returns none when no parser accepts the message, and else
\* the parser that was registered first among those that accept it, the
\* order of registration being BHD, QIK, CARIBE.
C30_FirstMatch ==
  parser # NotCalled =>
    /\ parser = None <=> Accepting = {}
    /\ parser # None =>
         /\ parser \in Accepting
         /\ \A q \in Accepting : Registered(parser) <= Registered(q)

\* a message that two parsers accept
C30_Witness ==
  /\ parser # NotCalled
  /\ Cardinality(Accepting) = 2
  /\ parser = "QIK" /\ "CARIBE" \in Accepting

\* ---- C31 ----
\* the rule's pattern occurs in the payee, letter case ignored
MatchesIgnoringCase(rule, payee) ==
  \E k \in DOMAIN payee.words : payee.words[k] = rule.match.word

\* current[k] is the payee after the first k rules, for the call in progress
IsCurrent(current) ==
  /\ current[0] = transaction.payee
  /\ \A k \in 1..Len(rules) :
       current[k] = IF MatchesIgnoringCase(rules[k], current[k - 1]) /\ rules[k].payee # Null
                      THEN Value(rules[k].payee)
                      ELSE current[k - 1]

\* the rules that match the payee current when they are tested and carry a memo
WithMemo(current) ==
  {k \in 1..Len(rules) : MatchesIgnoringCase(rules[k], current[k - 1]) /\ rules[k].memo # Null}

\* the j-th smallest member of a set of rule positions
Nth(S, j) == CHOOSE k \in S : Cardinality({l \in S : l <= k}) = j

\* the memos the result is made of: the input's, then the matching rules' in list order
Accumulated(current) ==
  transaction.memo \o [j \in 1..Cardinality(WithMemo(current)) |->
                         Value(rules[Nth(WithMemo(current), j)].memo)]

\* memo is the pieces, each two neighbours joined by exactly one space
JoinedBySpace(memo, pieces) ==
  /\ Len(memo) = IF pieces = <<>> THEN 0 ELSE 2 * Len(pieces) - 1
  /\ \A i \in DOMAIN pieces : memo[2 * i - 1] = pieces[i]
  /\ \A i \in 1..(Len(pieces) - 1) : memo[2 * i] = " "

\* C31: apply tests the rules in list order, case-insensitively, against the
\* payee as rewritten by the earlier rules; a matching rule overwrites the
\* payee with its replacement and appends its memo to the memo so far after
\* one space, so the last matching replacement wins and the memos accumulate;
\* apply returns a transaction for every input, equal to the input in every
\* field but payee and memo (id included), and leaves its input as it was.
C31_Normalization ==
  [][(normalized = NoCall /\ normalized' # NoCall) =>
       /\ transaction' = transaction
       /\ DOMAIN normalized' = DOMAIN transaction
       /\ \A f \in DOMAIN transaction \ {"payee", "memo"} : normalized'[f] = transaction[f]
       /\ \E current \in [0..Len(rules) -> Payees \cup Replacements] :
            /\ IsCurrent(current)
            /\ normalized'.payee = current[Len(rules)]
            /\ JoinedBySpace(normalized'.memo, Accumulated(current))]_vars

\* two rules: the first matches the payee in another letter case and rewrites
\* it, the second matches only the rewritten payee and rewrites it again;
\* both memos were appended to the memo of the input
C31_Witness ==
  /\ normalized # NoCall
  /\ Len(rules) = 2
  /\ MatchesIgnoringCase(rules[1], transaction.payee)
  /\ rules[1].match.upper # transaction.payee.upper
  /\ ~MatchesIgnoringCase(rules[2], transaction.payee)
  /\ rules[1].payee # Null /\ rules[2].payee # Null
  /\ MatchesIgnoringCase(rules[2], Value(rules[1].payee))
  /\ normalized.payee = Value(rules[2].payee)
  /\ normalized.payee # Value(rules[1].payee)
  /\ rules[1].memo # Null /\ rules[2].memo # Null /\ rules[1].memo # rules[2].memo
  /\ transaction.memo # <<>>
  /\ normalized.memo = transaction.memo \o <<" ">> \o <<Value(rules[1].memo)>>
                          \o <<" ">> \o <<Value(rules[2].memo)>>
  /\ normalized.id = transaction.id

\* ---- C32 ----
\* the run in progress after the step is a sync run given a minimum date
MinDateRun == run'.kind = "sync" /\ run'.minDate # 0

\* C32: in a sync run given a minimum date, no transaction dated before it is
\* inserted into the store and no row dated before it is in a request sent to
\* the ledger; the rows dated on or after it are not touched by the filter:
\* the selection holds every pending row dated on or after the minimum date.
C32_MinDate ==
  [][MinDateRun =>
       /\ \A i \in DOMAIN store' \ DOMAIN store : store'[i].date >= run'.minDate
       /\ \A k \in DOMAIN calls' : \A i \in Range(calls'[k].ids) :
            store'[i].date >= run'.minDate
       /\ (sel = <<>> /\ sel' # <<>>) =>
            \A i \in DOMAIN store :
              (Pending(store[i]) /\ store[i].date >= run.minDate) => i \in Range(sel')]_vars

\* witness of C32: a sync run given a minimum date sent a request while a
\* pending row dated before that date, which the run did not submit, and a row
\* dated on or after it, which the run submitted, are in the store
C32_Witness ==
  /\ run.kind = "sync" /\ run.minDate # 0
  /\ calls # <<>>
  /\ \E i \in DOMAIN store :
       /\ store[i].date < run.minDate
       /\ store[i].ynab_synced_at = Null /\ store[i].ynab_sync_error = Null
       /\ i \notin Submitted
  /\ \E i \in DOMAIN store : store[i].date >= run.minDate /\ i \in Submitted

\* ---- C33 ----
\* the write-back loop, taken in this step, records an error outcome for row i:
\* the row was selected, has no ledger id in the results, and has an error in
\* syncErrors or no account mapping
ErrorRecorded(i) ==
  /\ pc = "writeback" /\ pc' = "done"
  /\ i \in Range(sel)
  /\ i \notin DOMAIN results
  /\ i \in DOMAIN syncErrors \/ ~HasMapping(store[i])

\* the message and the kind the run holds for a row whose error it records
RecordedMessage(i) ==
  IF i \in DOMAIN syncErrors THEN formatError(syncErrors[i])
  ELSE MappingErrorMessage(store[i].account)
RecordedKind(i) ==
  IF i \in DOMAIN syncErrors THEN syncErrors[i].type ELSE "CONFIGURATION_ERROR"

\* C33: each time an error outcome is recorded for a row its retry count grows
\* by exactly 1, the last-retry time is stamped and the last error and its
\* kind are those of the error recorded; the retry count is never negative; a
\* row starts with count 0 and not FAILED, and the count of a FAILED row
\* changes in no other step, so it is the number of error outcomes recorded
\* for the row.
C33_RetryCount ==
  [][\A i \in DOMAIN store' :
       /\ store'[i].ynab_sync_retry_count >= 0
       /\ i \notin DOMAIN store =>
            store'[i].ynab_sync_retry_count = 0 /\ ~Failed(store'[i])
       /\ (i \in DOMAIN store /\ ErrorRecorded(i)) =>
            /\ store'[i].ynab_sync_retry_count = store[i].ynab_sync_retry_count + 1
            /\ store'[i].ynab_sync_last_retry = Stamp
            /\ store'[i].ynab_sync_error = Some(RecordedMessage(i))
            /\ store'[i].ynab_sync_error_type = Some(RecordedKind(i))
       /\ (i \in DOMAIN store /\ ~ErrorRecorded(i) /\ Failed(store'[i])) =>
            /\ Failed(store[i])
            /\ store'[i].ynab_sync_retry_count = store[i].ynab_sync_retry_count]_vars

\* witness of C33: the write-back of a second run has recorded the error the
\* run holds for a row that was FAILED already: its count went from 1 to 2
C33_Witness ==
  /\ pc = "done" /\ runs = 2
  /\ \E i \in Range(sel) \cap DOMAIN syncErrors :
       /\ store[i].ynab_sync_error = Some(formatError(syncErrors[i]))
       /\ store[i].ynab_sync_error_type = Some(syncErrors[i].type)
       /\ store[i].ynab_sync_last_retry = Stamp
       /\ store[i].ynab_sync_retry_count = 2

\* ---- C34 ----
\* the kind the table of response statuses gives, "" for a status not in it
KindOfStatus(status) ==
  IF status = 429 THEN "RATE_LIMIT"
  ELSE IF status \in {401, 403} THEN "AUTHENTICATION_ERROR"
  ELSE IF status = 404 THEN "NOT_FOUND"
  ELSE IF status \in {400, 422} THEN "VALIDATION_ERROR"
  ELSE IF status >= 500 /\ status <= 599 THEN "SERVER_ERROR"
  ELSE ""
KnownCode(code) == code \in {"ECONNRESET", "ETIMEDOUT", "ENOTFOUND"}
TimeoutKeyword(kw) == "timeout" \in kw \/ "TIMEOUT" \in kw
ConfigurationKeyword(kw) == "not found" \in kw \/ "required" \in kw

\* C34: classifyError inspects its criteria in a fixed order: a response
\* status of the table decides the kind whatever transport code and message
\* keywords the error also has; otherwise a known transport code gives
\* NETWORK_ERROR; otherwise a timeout keyword gives TIMEOUT, before 'not
\* found' or 'required' gives CONFIGURATION_ERROR; otherwise UNKNOWN_ERROR.
C34_Order ==
  (classified # NoCall /\ caught.error.obj /\ ~caught.error.app) =>
    LET e == caught.error IN
      classified.type =
        IF KindOfStatus(e.status) # "" THEN KindOfStatus(e.status)
        ELSE IF KnownCode(e.code) THEN "NETWORK_ERROR"
        ELSE IF TimeoutKeyword(e.kw) THEN "TIMEOUT"
        ELSE IF ConfigurationKeyword(e.kw) THEN "CONFIGURATION_ERROR"
        ELSE "UNKNOWN_ERROR"

\* witness of C34: an error without a status of the table that has a known
\* transport code, a timeout keyword and a configuration keyword at once has
\* been classified NETWORK_ERROR
C34_Witness ==
  /\ classified # NoCall /\ caught.error.obj /\ ~caught.error.app
  /\ KindOfStatus(caught.error.status) = ""
  /\ caught.error.status # 0
  /\ KnownCode(caught.error.code)
  /\ TimeoutKeyword(caught.error.kw) /\ ConfigurationKeyword(caught.error.kw)
  /\ classified.type = "NETWORK_ERROR"

\* ---- C35 ----
\* C35: every column the status updates write exists in the transactions
\* table that initDB creates: for a row whose status has been written, the
\* columns of the statement that wrote it (updateYNABError for a FAILED row,
\* updateYNABSync otherwise) are columns of that table.
C35_ColumnsExist ==
  \A i \in DOMAIN store :
    store[i].ynab_synced_at # Null =>
      (IF Failed(store[i]) THEN updateYNABErrorColumns ELSE updateYNABSyncColumns)
        \subseteq initDBColumns

\* ---- C36 ----
\* the requests of this run by which the ledger created a transaction for row i
Acceptances(i) == {k \in DOMAIN calls : calls[k].ok /\ i \in calls[k].created}

\* C36: no row is accepted (created) by the ledger more than once; stated for
\* the requests of one run, which is the least the claim asks of a sequence
\* of runs.
C36_AcceptedOnce ==
  \A i \in DOMAIN store : Cardinality(Acceptances(i)) <= 1

\* ---- C37 ----
\* C37: at the end of a run the recorded status of every selected row agrees
\* with the ledger: a row recorded FAILED had no submission accepted by the
\* ledger in the run, and a row recorded SYNCED carries the id the ledger
\* returned for that row in a request of the run.
C37_StatusAgrees ==
  pc = "done" =>
    \A i \in Range(sel) :
      /\ Failed(store[i]) => Acceptances(i) = {}
      /\ Synced(store[i]) =>
           Acceptances(i) # {} /\ store[i].ynab_transaction_id = Some(LedgerId(i))

\* ---- C38 ----
\* the sum of the counts of a breakdown over the kinds S
RECURSIVE Total(_, _)
Total(breakdown, S) ==
  IF S = {} THEN 0
  ELSE LET type == CHOOSE t \in S : TRUE
       IN breakdown[type] + Total(breakdown, S \ {type})

BeforeSomeMinDate(date) == \E md \in MinDates \ {0} : date < md

\* C39: the processed marker of a document is written only in a step in which
\* no error is counted and after which the transaction of the document is in
\* the transactions table, unless the minimum-date filter of the run skipped
\* it; a step that counts an error (a failed insert, a parser that returned
\* null) writes no marker; so every processed document has its transaction in
\* the table or a date that a minimum-date filter skips.
C39_Marker ==
  [][/\ \A m \in processed' \ processed :
          /\ mail'[m] \in ParsedTx
          /\ errorCount' = errorCount
          /\ \/ mail'[m].id \in DOMAIN store'
             \/ run.minDate # 0 /\ mail'[m].date < run.minDate /\ store' = store
     /\ errorCount' > errorCount => processed' = processed
     /\ \A m \in processed' :
          mail'[m].id \in DOMAIN store' \/ BeforeSomeMinDate(mail'[m].date)]_vars

\* witness of C39: one document is marked processed and its transaction is in
\* the table, while the insert of another document's transaction raised an
\* error: it was counted, the transaction is not in the table and the
\* document is not marked
C39_Witness ==
  /\ errorCount > 0
  /\ \E m \in processed : mail[m] \in ParsedTx /\ mail[m].id \in DOMAIN store
  /\ \E m \in Msgs \ processed : mail[m] \in ParsedTx /\ mail[m].id \notin DOMAIN store

\* ---- C40 ----
\* C40: a document skipped by the minimum-date filter of one sync run is
\* ingested by a later sync run whose minimum date, if it has one, is not
\* after the document's transaction: when the ingestion loop of a sync run is
\* over, the transaction of every processed document that passes the run's
\* filter is in the transactions table.
C40_IngestedLater ==
  (run.kind = "sync" /\ pc = "done") =>
    \A m \in processed :
      (mail[m] \in ParsedTx /\ PassesMinDate(mail[m])) => mail[m].id \in DOMAIN store

====
